---- MODULE Spec2Model ----
(***************************************************************************)
(* A model of the Scala and Zig lexers of Notepad4                         *)
(* (scintilla/lexers/LexScala.cxx, scintilla/lexers/LexZig.cxx): the scan  *)
(* loops ColouriseScalaDoc and ColouriseZigDoc, one action per loop        *)
(* iteration, the fold pass FoldZigDoc, and the LineState encoding.        *)
(*                                                                         *)
(* Characters are one-character strings, NUL is the string "NUL".          *)
(* Positions are 0-based as in the source; styles are named by the suffix  *)
(* of their SCE_SCALA_ / SCE_ZIG_ constant.                                *)
(***************************************************************************)
EXTENDS Integers, Sequences, FiniteSets, TLC

VARIABLES
    doc,        \* the document: a sequence of characters
    lexer,      \* which program runs: "scala", "zig", "codec"
    pc,         \* position of the driver: "scan", "fold", "done", ...
    pass,       \* which pass of the driver is running: "full", "first", "second"
    split,      \* the line at which the driver splits the document (0: no split)
    m,          \* the scan: StyleContext, the lexer's locals and the styler's store
    fullStyles, \* the styles the single unsplit pass produced
    fold,       \* FoldZigDoc's locals and the fold levels it stored
    hist,       \* history: iteration count, deepest context stack, ...
    codec       \* the LineState codec's input, encoding and decoding

vars == <<doc, lexer, pc, pass, split, m, fullStyles, fold, hist, codec>>

(***************************************************************************)
(* Characters and their classes (lexlib/CharacterSet.h).                   *)
(***************************************************************************)
NUL == "NUL"
NL == "\n"
DQ == "\""
SQ == "'"
BSL == "\\"
BQ == "BQ"    \* the backtick

LowerAlpha ==
    {"a", "b", "c", "d", "e", "f", "g", "h", "i", "j", "k", "l", "m", "n", "o",
     "p", "q", "r", "s", "t", "u", "v", "w", "x", "y", "z"}

Digits == {"0", "1", "2", "3", "4", "5", "6", "7", "8", "9"}

Punct ==
    {"!", DQ, "#", "$", "%", "&", SQ, "(", ")", "*", "+", ",", "-", ".", "/",
     ":", ";", "<", "=", ">", "?", "@", "[", BSL, "]", "^", "_", BQ, "{",
     "|", "}", "~"}

IsADigit(ch) == ch \in Digits

IsAlpha(ch) == ch \in LowerAlpha

IsHexDigit(ch) == ch \in Digits \cup {"a", "b", "c", "d", "e", "f"}

IsIdentifierStartEx(ch) == ch \in LowerAlpha \cup {"_"}

IsIdentifierCharEx(ch) == ch \in LowerAlpha \cup Digits \cup {"_"}

IsEOLChar(ch) == ch = NL

IsASpaceOrTab(ch) == ch = " "

isspacechar(ch) == ch \in {" ", NL}

IsAGraphic(ch) == ch \in LowerAlpha \cup Digits \cup Punct

IsControlOrSpace(ch) == ch \in {NUL, " ", NL}

IsNumberStart(ch, chNext) == IsADigit(ch) \/ (ch = "." /\ IsADigit(chNext))

IsDecimalNumber(chPrev, ch, chNext) ==
    \/ IsIdentifierCharEx(ch)
    \/ (ch = "." /\ chNext # ".")
    \/ (ch \in {"+", "-"} /\ chPrev = "e")

IsCommentTagPrev(chPrev) == IsControlOrSpace(chPrev) \/ chPrev \in {"/", "*", "!"}

(***************************************************************************)
(* The document buffer and its line table (lexlib/LexAccessor.h).          *)
(***************************************************************************)
DocLen == Len(doc)

CharAt(p) == IF p >= 0 /\ p < DocLen THEN doc[p + 1] ELSE NUL

NewlinesBefore(p) == Cardinality({q \in 0..(p - 1) : q < DocLen /\ CharAt(q) = NL})

NumLines == NewlinesBefore(DocLen) + 1

\* styler.LineStart(line): the position after the line-th line end, the
\* document's length past the last line.
LineStart(line) ==
    IF line <= 0 THEN 0
    ELSE IF line >= NumLines THEN DocLen
    ELSE 1 + CHOOSE p \in 0..(DocLen - 1) : CharAt(p) = NL /\ NewlinesBefore(p) = line - 1

\* styler.LineEnd(line): the position of the line's line end.
LineEnd(line) == IF line >= NumLines - 1 THEN DocLen ELSE LineStart(line + 1) - 1

GetLine(p) == IF p >= DocLen THEN NumLines - 1 ELSE NewlinesBefore(p)

StyleAt(c, p) == IF p >= 0 /\ p < DocLen THEN c.styles[p + 1] ELSE "DEFAULT"

GetLineState(c, line) == IF line \in DOMAIN c.lineStates THEN c.lineStates[line] ELSE 0

(***************************************************************************)
(* StyleContext (lexlib/StyleContext.h), on the scan record c.             *)
(***************************************************************************)
\* styler.ColourTo(pos, style): the open segment gets the style.
ColourTo(c, last, style) ==
    [p \in 1..DocLen |-> IF p - 1 >= c.segStart /\ p - 1 <= last THEN style ELSE c.styles[p]]

SetState(c, s) ==
    [c EXCEPT !.styles = ColourTo(c, c.pos - 1, c.state), !.segStart = c.pos, !.state = s]

ChangeState(c, s) == [c EXCEPT !.state = s]

Forward(c) ==
    IF c.pos < c.endPos
    THEN LET line == IF c.atLineEnd THEN c.currentLine + 1 ELSE c.currentLine
             p == c.pos + 1
         IN  [c EXCEPT !.atLineStart = c.atLineEnd, !.currentLine = line,
                       !.chPrev = c.ch, !.pos = p, !.ch = c.chNext,
                       !.chNext = CharAt(p + 1), !.atLineEnd = (p >= LineEnd(line))]
    ELSE [c EXCEPT !.atLineStart = FALSE, !.chPrev = " ", !.ch = " ",
                   !.chNext = " ", !.atLineEnd = TRUE]

Forward2(c) == Forward(Forward(c))

ForwardSetState(c, s) == SetState(Forward(c), s)

\* sc.Advance(nb): nb characters of the current line are skipped.
Advance(c, nb) ==
    LET p == c.pos + nb
    IN  IF nb <= 0 THEN c
        ELSE [c EXCEPT !.pos = p, !.chPrev = CharAt(p - 1), !.ch = CharAt(p),
                       !.chNext = CharAt(p + 1), !.atLineStart = FALSE,
                       !.atLineEnd = (p >= LineEnd(c.currentLine))]

\* sc.Rewind(): back to the start of the open segment.
Rewind(c) ==
    LET p == c.segStart
    IN  [c EXCEPT !.pos = p, !.chPrev = CharAt(p - 1), !.ch = CharAt(p),
                  !.chNext = CharAt(p + 1), !.atLineStart = FALSE,
                  !.atLineEnd = (p >= LineEnd(c.currentLine))]

Match2(c, a, b) == c.ch = a /\ c.chNext = b

MatchNext2(c, a, b) == c.chNext = a /\ CharAt(c.pos + 2) = b

GetCharAfterNext(c) == CharAt(c.pos + 2)

GetRelative(c, n) == CharAt(c.pos + n)

More(c) == c.pos < c.endPos

\* sc.GetLineNextChar(): the first non-blank character from the current
\* one to the end of the line, NUL when there is none.
GetLineNextChar(c) ==
    LET stop == LineStart(c.currentLine + 1)
        rest == {p \in (c.pos + 1)..(stop - 1) : ~isspacechar(CharAt(p))}
    IN  IF ~isspacechar(c.ch) THEN c.ch
        ELSE IF rest = {} THEN NUL
        ELSE CharAt(CHOOSE p \in rest : \A q \in rest : p <= q)

\* sc.GetCurrent(): the text of the open segment.
GetCurrent(c) == [i \in 1..(c.pos - c.segStart) |-> CharAt(c.segStart + i - 1)]

\* StyleContext's constructor, on a styler holding the styles and line
\* states of earlier passes.  written lists the lines of the styler's
\* SetLineState calls in call order, read holds the lines of its
\* GetLineState calls, peeked the positions a lexer's helper has passed to
\* styler[], matched the positions such a helper has reported as a
\* directive's end.
NewStyleContext(startPos, length, initStyle, styles, lineStates) ==
    LET line == GetLine(startPos)
    IN  [pos |-> startPos, endPos |-> startPos + length, state |-> initStyle,
         currentLine |-> line, atLineStart |-> (LineStart(line) = startPos),
         atLineEnd |-> (startPos >= LineEnd(line)),
         chPrev |-> NUL, ch |-> CharAt(startPos), chNext |-> CharAt(startPos + 1),
         segStart |-> startPos, styles |-> styles, lineStates |-> lineStates,
         cont |-> FALSE, startPos |-> startPos, written |-> <<>>, read |-> {},
         peeked |-> {}, matched |-> {}]

\* sc.Complete(): the open segment is coloured.
Complete(c) == [c EXCEPT !.styles = ColourTo(c, c.pos - 1, c.state), !.segStart = c.pos]

Continue(c) == [c EXCEPT !.cont = TRUE]

(***************************************************************************)
(* The bit operations of C++ on int.  Every value the model builds is      *)
(* non-negative and below 2^31, where |, &, << and >> on int are exact.    *)
(***************************************************************************)
RECURSIVE BitOr(_, _)
BitOr(a, b) ==
    IF a = 0 /\ b = 0 THEN 0
    ELSE (IF a % 2 = 1 \/ b % 2 = 1 THEN 1 ELSE 0) + 2 * BitOr(a \div 2, b \div 2)

RECURSIVE BitAnd(_, _)
BitAnd(a, b) ==
    IF a = 0 \/ b = 0 THEN 0
    ELSE (IF a % 2 = 1 /\ b % 2 = 1 THEN 1 ELSE 0) + 2 * BitAnd(a \div 2, b \div 2)

ShiftLeft(a, k) == a * (2 ^ k)

ShiftRight(a, k) == a \div (2 ^ k)

(***************************************************************************)
(* The line-state flags shared with the indentation folder                 *)
(* (lexlib/LexerUtils.h).                                                  *)
(***************************************************************************)
PyLineStateMaskEmptyLine == 1
PyLineStateMaskCommentLine == 2
PyLineStateMaskTripleQuote == 4
PyLineStateMaskCloseBrace == 8
PyLineStateStringInterpolation == 16

(***************************************************************************)
(* LexScala.cxx: predicates on characters and styles.                      *)
(***************************************************************************)
IsScalaIdentifierStart(ch) == IsIdentifierStartEx(ch) \/ ch = "$"

IsScalaIdentifierChar(ch) == IsIdentifierCharEx(ch) \/ ch = "$"

ScalaStringStates ==
    {"BACKTICKS", "CHARACTER", "XML_STRING_SQ", "XML_STRING_DQ", "STRING",
     "INTERPOLATED_STRING", "TRIPLE_STRING", "TRIPLE_INTERPOLATED_STRING"}

\* state <= SCE_SCALA_INTERPOLATED_STRING, asked of a string state only
IsSingleLineString(state) ==
    state \in {"BACKTICKS", "CHARACTER", "XML_STRING_SQ", "XML_STRING_DQ", "STRING",
               "INTERPOLATED_STRING"}

GetStringQuote(state) ==
    IF state = "BACKTICKS" THEN BQ
    ELSE IF state \in {"CHARACTER", "XML_STRING_SQ"} THEN SQ
    ELSE DQ

IsTripleString(state) == state \in {"TRIPLE_STRING", "TRIPLE_INTERPOLATED_STRING"}

\* no string state takes interpolation
IsInterpolatedStringNever(state) == FALSE

IsInterpolatedString(state) ==
    state \in {"INTERPOLATED_STRING", "TRIPLE_INTERPOLATED_STRING"}

\* sc.state + SCE_SCALA_TRIPLE_STRING - SCE_SCALA_STRING
TripleOf(state) ==
    IF state = "INTERPOLATED_STRING" THEN "TRIPLE_INTERPOLATED_STRING" ELSE "TRIPLE_STRING"

\* state <= SCE_SCALA_TASKMARKER
ScalaSpaceStyles ==
    {"DEFAULT", "COMMENTLINE", "COMMENTBLOCK", "COMMENTBLOCKDOC", "COMMENTTAG", "TASKMARKER"}

ScalaIsSpaceEquiv(state) == state \in ScalaSpaceStyles

\* the styles from SCE_SCALA_OPERATOR_PF to SCE_SCALA_IDENTIFIER
ExpressionStyles ==
    {"OPERATOR_PF", "NUMBER", "SYMBOL", "IDENTIFIER", "ESCAPECHAR"} \cup ScalaStringStates

FollowExpression(chPrevNonWhite, stylePrevNonWhite) ==
    \/ chPrevNonWhite = ")"
    \/ chPrevNonWhite = "]"
    \/ stylePrevNonWhite \in ExpressionStyles
    \/ IsScalaIdentifierChar(chPrevNonWhite)

IsXmlTagStart(c) ==
    /\ \/ c.chPrev \in {"(", "{"}
       \/ /\ IsControlOrSpace(c.chPrev)
          /\ \/ c.stylePrevNonWhite = "XML_TAG"
             \/ c.stylePrevNonWhite = "WORD"
             \/ ~FollowExpression(c.chPrevNonWhite, c.stylePrevNonWhite)
    /\ (IsScalaIdentifierChar(c.chNext) \/ c.chNext \in {"!", "?"})

\* The keyword tables handed to the lexer, as sets of words.
KeywordList ==
    {<<"d", "e", "f">>, <<"e", "n", "d">>, <<"n", "e", "w">>, <<"i", "f">>,
     <<"r", "e", "t", "u", "r", "n">>, <<"y", "i", "e", "l", "d">>,
     <<"c", "l", "a", "s", "s">>, <<"t", "r", "a", "i", "t">>, <<"e", "n", "u", "m">>,
     <<"w", "i", "t", "h">>, <<"o", "b", "j", "e", "c", "t">>}

ClassList == {<<"k">>}

TraitList == {<<"j">>}

ClassWords ==
    {<<"c", "l", "a", "s", "s">>, <<"n", "e", "w">>,
     <<"e", "x", "t", "e", "n", "d", "s">>, <<"t", "h", "r", "o", "w", "s">>,
     <<"o", "b", "j", "e", "c", "t">>}

TraitWords == {<<"t", "r", "a", "i", "t">>, <<"w", "i", "t", "h">>}

ReturnWords == {<<"r", "e", "t", "u", "r", "n">>, <<"y", "i", "e", "l", "d">>}

\* kwType > KeywordType::None && kwType < KeywordType::Return
PendingKeywordTypes == {"Annotation", "Class", "Trait", "Enum", "Function"}

KeywordStyle(kwType) ==
    CASE kwType = "Annotation" -> "ANNOTATION"
      [] kwType = "Class" -> "CLASS"
      [] kwType = "Trait" -> "TRAIT"
      [] kwType = "Enum" -> "ENUM"
      [] kwType = "Function" -> "FUNCTION_DEFINITION"
      [] OTHER -> "DEFAULT"

\* HighlightTaskMarker needs an upper-case letter at sc.ch; the documents
\* of this model hold none.
HighlightTaskMarker(c) == FALSE

(***************************************************************************)
(* ColouriseScalaDoc: the cases of the switch on sc.state.  Each takes the *)
(* scan record and gives it back; cont is set where the code continues.    *)
(***************************************************************************)
ScalaOperatorCase(c) == SetState(c, "DEFAULT")

ScalaNumberCase(c) ==
    IF ~IsDecimalNumber(c.chPrev, c.ch, c.chNext) THEN SetState(c, "DEFAULT") ELSE c

\* the identifier classified without the character before it
ScalaClassifyIdentifierNoBefore(c) ==
    IF GetLineNextChar(c) = "(" /\ GetCurrent(c) = <<"a">>
    THEN [ChangeState(c, "FUNCTION") EXCEPT !.stylePrevNonWhite = "FUNCTION",
                                             !.kwType = "None"]
    ELSE [c EXCEPT !.stylePrevNonWhite = c.state, !.kwType = "None"]

\* the classification of a finished identifier run
ScalaClassifyIdentifier(c) ==
    LET s == GetCurrent(c)
        kw0 == CASE s \in ClassWords -> "Class"
                 [] s \in TraitWords -> "Trait"
                 [] s = <<"d", "e", "f">> -> "Function"
                 [] s = <<"e", "n", "u", "m">> -> "Enum"
                 [] s \in ReturnWords -> "Return"
                 [] OTHER -> "None"
        c1 == IF s \in KeywordList
              THEN [ChangeState(c, "WORD") EXCEPT
                      !.kwType = IF kw0 \in PendingKeywordTypes
                                    /\ ~IsIdentifierStartEx(GetLineNextChar(c))
                                 THEN "None" ELSE kw0,
                      !.lineState = IF kw0 = "None" /\ c.visibleChars = 3
                                       /\ s = <<"e", "n", "d">>
                                    THEN BitOr(c.lineState, PyLineStateMaskCloseBrace)
                                    ELSE c.lineState]
              ELSE IF s \in ClassList THEN ChangeState(c, "CLASS")
              ELSE IF s \in TraitList THEN ChangeState(c, "TRAIT")
              ELSE IF c.ch # "."
              THEN IF c.kwType \in PendingKeywordTypes
                   THEN ChangeState(c, KeywordStyle(c.kwType))
                   ELSE IF GetLineNextChar(c) = "("
                   THEN IF c.kwType # "Return"
                           /\ (IsIdentifierCharEx(c.chBefore) \/ c.chBefore = "]")
                        THEN ChangeState(c, "FUNCTION_DEFINITION")
                        ELSE ChangeState(c, "FUNCTION")
                   ELSE c
              ELSE c
    IN  [c1 EXCEPT !.stylePrevNonWhite = c1.state,
                   !.kwType = IF c1.state # "WORD" /\ c1.ch # "." THEN "None" ELSE @]

ScalaIdentifierCase(c) ==
    LET xml == {"XML_TAG", "XML_ATTRIBUTE"}
        c1 == IF \/ (c.ch = "." /\ c.state \notin {"IDENTIFIER", "SYMBOL"})
                 \/ (c.ch = ":" /\ c.state \in xml)
              THEN ForwardSetState(SetState(c, "OPERATOR2"), c.state)
              ELSE c
    IN  IF ~IsScalaIdentifierChar(c1.ch) /\ ~(c1.ch = "-" /\ c1.state \in xml)
        THEN IF c1.state = "IDENTIFIER"
             THEN IF c1.escOuter = "DEFAULT"
                  THEN Continue(SetState(ScalaClassifyIdentifier(c1), "DEFAULT"))
                  ELSE Continue(SetState(c1, c1.escOuter))
             ELSE Continue(SetState(c1, IF c1.state \in xml THEN "XML_OTHER" ELSE "DEFAULT"))
        ELSE c1

ScalaCommentLineCase(c) ==
    IF c.atLineStart THEN SetState(c, "DEFAULT") ELSE c

\* a close marker counted twice
CommentLevelAfterCloseTwice(level) == level - 2

CommentLevelAfterClose(level) == level - 1

\* a nested open marker that is not counted
CommentLevelAfterOpenFlat(level) == level

CommentLevelAfterOpen(level) == level + 1

ScalaCommentBlockCase(c) ==
    LET c0 == IF c.atLineStart THEN [c EXCEPT !.lineState = PyLineStateMaskCommentLine] ELSE c
    IN  IF Match2(c0, "*", "/")
        THEN LET c1 == [Forward(c0) EXCEPT !.commentLevel = CommentLevelAfterClose(@)]
             IN  IF c1.commentLevel = 0
                 THEN LET c2 == ForwardSetState(c1, "DEFAULT")
                      IN  IF c2.lineState = PyLineStateMaskCommentLine
                             /\ GetLineNextChar(c2) # NUL
                          THEN [c2 EXCEPT !.lineState = 0]
                          ELSE c2
                 ELSE c1
        ELSE IF Match2(c0, "/", "*")
        THEN [Forward(c0) EXCEPT !.commentLevel = CommentLevelAfterOpen(@)]
        ELSE IF c0.state = "COMMENTBLOCKDOC" /\ c0.ch = "@" /\ IsAlpha(c0.chNext)
                /\ IsCommentTagPrev(c0.chPrev)
        THEN SetState(c0, "COMMENTTAG")
        ELSE IF HighlightTaskMarker(c0) THEN Continue(c0)
        ELSE c0

ScalaCommentTagCase(c) ==
    IF ~IsAlpha(c.ch) THEN Continue(SetState(c, "COMMENTBLOCKDOC")) ELSE c

\* while (sc.chNext == '"') sc.Forward();
\* the close taken at the first three quotes of a run
SkipExtraQuotesNone(c) == c

RECURSIVE SkipExtraQuotes(_)
SkipExtraQuotes(c) ==
    IF c.chNext = DQ THEN SkipExtraQuotes(Forward(c)) ELSE c

\* every introducer taken as one character
ResetEscapeStateShort(c, state, chNext) == [c EXCEPT !.escOuter = state, !.escDigits = 1]

\* EscapeSequence::resetEscapeState
ResetEscapeState(c, state, chNext) ==
    [c EXCEPT !.escOuter = state, !.escDigits = IF chNext = "u" THEN 5 ELSE 1]

ScalaStringCase(c) ==
    IF c.atLineStart /\ IsSingleLineString(c.state)
    THEN SetState(c, "DEFAULT")
    ELSE IF c.ch = BSL
    THEN IF ~IsEOLChar(c.chNext)
         THEN LET c1 == Forward(SetState(ResetEscapeState(c, c.state, c.chNext), "ESCAPECHAR"))
              IN  IF IsInterpolatedString(c1.state) /\ Match2(c1, "$", DQ)
                  THEN Forward(c1)
                  ELSE c1
         ELSE c
    ELSE IF c.ch = "$" /\ IsInterpolatedString(c.state)
    THEN IF c.chNext = "$"
         THEN Forward(SetState([c EXCEPT !.escOuter = c.state, !.escDigits = 1], "ESCAPECHAR"))
         ELSE IF c.chNext = "{"
         THEN Forward(SetState([c EXCEPT !.nestedState = Append(@, c.state)], "OPERATOR2"))
         ELSE IF IsScalaIdentifierStart(c.chNext)
         THEN SetState([c EXCEPT !.escOuter = c.state], "IDENTIFIER")
         ELSE c
    ELSE IF c.ch = GetStringQuote(c.state)
            /\ (IsSingleLineString(c.state) \/ MatchNext2(c, DQ, DQ))
    THEN LET c1 == IF ~IsSingleLineString(c.state) THEN SkipExtraQuotes(c) ELSE c
         IN  Continue(ForwardSetState(c1,
                 IF c1.state \in {"XML_STRING_SQ", "XML_STRING_DQ"}
                 THEN "XML_OTHER" ELSE "DEFAULT"))
    ELSE c

\* the escape ends in the default state
ScalaEscapeCaseToDefault(c) ==
    LET c1 == [c EXCEPT !.escDigits = @ - 1]
    IN  IF c1.escDigits <= 0 \/ ~IsHexDigit(c.ch)
        THEN Continue(SetState(c1, "DEFAULT"))
        ELSE c1

\* EscapeSequence::atEscapeEnd and the case that asks it
ScalaEscapeCase(c) ==
    LET c1 == [c EXCEPT !.escDigits = @ - 1]
    IN  IF c1.escDigits <= 0 \/ ~IsHexDigit(c.ch)
        THEN Continue(SetState(c1, c1.escOuter))
        ELSE c1

ScalaXmlCase(c) ==
    IF c.ch = ">" \/ Match2(c, "/", ">")
    THEN LET c1 == SetState(c, "XML_TAG")
             c2 == IF c1.ch = "/"
                   THEN [Forward(c1) EXCEPT !.xmlTagLevel = @ - 1]
                   ELSE c1
             c3 == [c2 EXCEPT !.chPrevNonWhite = ">", !.stylePrevNonWhite = "XML_TAG"]
         IN  Continue(ForwardSetState(c3,
                 IF c3.xmlTagLevel = 0 THEN "DEFAULT" ELSE "XML_TEXT"))
    ELSE IF c.ch = "=" /\ c.state = "XML_OTHER"
    THEN Continue(ForwardSetState(SetState(c, "OPERATOR2"), "XML_OTHER"))
    ELSE IF c.ch \in {SQ, DQ} /\ c.state = "XML_OTHER"
    THEN SetState(c, IF c.ch = SQ THEN "XML_STRING_SQ" ELSE "XML_STRING_DQ")
    ELSE IF c.state = "XML_OTHER" /\ IsScalaIdentifierStart(c.ch)
    THEN SetState(c, "XML_ATTRIBUTE")
    ELSE IF c.ch = "{"
    THEN SetState([c EXCEPT !.nestedState = Append(@, c.state)], "OPERATOR2")
    ELSE IF Match2(c, "<", "/")
    THEN Forward(SetState([c EXCEPT !.xmlTagLevel = @ - 1], "XML_TAG"))
    ELSE IF c.ch = "<"
    THEN SetState([c EXCEPT !.xmlTagLevel = @ + 1], "XML_TAG")
    ELSE c

ScalaSwitch(c) ==
    CASE c.state \in {"OPERATOR", "OPERATOR2", "OPERATOR_PF"} -> ScalaOperatorCase(c)
      [] c.state = "NUMBER" -> ScalaNumberCase(c)
      [] c.state \in {"IDENTIFIER", "ANNOTATION", "SYMBOL", "XML_TAG", "XML_ATTRIBUTE"} ->
            ScalaIdentifierCase(c)
      [] c.state = "COMMENTLINE" -> ScalaCommentLineCase(c)
      [] c.state \in {"COMMENTBLOCK", "COMMENTBLOCKDOC"} -> ScalaCommentBlockCase(c)
      [] c.state = "COMMENTTAG" -> ScalaCommentTagCase(c)
      [] c.state \in ScalaStringStates -> ScalaStringCase(c)
      [] c.state = "ESCAPECHAR" -> ScalaEscapeCase(c)
      [] c.state \in {"XML_TEXT", "XML_OTHER"} -> ScalaXmlCase(c)
      [] OTHER -> c

(***************************************************************************)
(* ColouriseScalaDoc: the entry rules of the default state.                *)
(***************************************************************************)
\* an operator character: braces push and pop the context stack
\* a closing brace that pops the stack but returns to the default state
ScalaGraphicEntryForgetsState(c) ==
    LET c2 == ChangeState(SetState(c, "OPERATOR"), "OPERATOR2")
    IN  IF c.nestedState = <<>> THEN SetState(c, "OPERATOR")
        ELSE IF c.ch = "{" THEN [c2 EXCEPT !.nestedState = Append(@, "DEFAULT")]
        ELSE IF c.ch = "}"
        THEN Continue(ForwardSetState(
                 [c2 EXCEPT !.nestedState = SubSeq(@, 1, Len(@) - 1)], "DEFAULT"))
        ELSE c2

\* TakeAndPop(nestedState): the state on top and the stack without it
TakeAndPop(stack) ==
    [state |-> stack[Len(stack)], rest |-> SubSeq(stack, 1, Len(stack) - 1)]

ScalaGraphicEntry(c) ==
    LET c1 == SetState(c, "OPERATOR")
    IN  IF c1.ch \in {"+", "-"} /\ c1.ch = c1.chNext
        THEN Forward(ChangeState(c1, "OPERATOR_PF"))
        ELSE IF c1.nestedState # <<>>
        THEN LET c2 == ChangeState(c1, "OPERATOR2")
             IN  IF c2.ch = "{"
                 THEN [c2 EXCEPT !.nestedState = Append(@, "DEFAULT")]
                 ELSE IF c2.ch = "}"
                 THEN LET top == TakeAndPop(c2.nestedState)
                          c3 == [c2 EXCEPT !.nestedState = top.rest]
                      IN  Continue(ForwardSetState(c3, top.state))
                 ELSE c2
        ELSE IF c1.visibleChars = 0 /\ c1.ch \in {"}", "]", ")"}
        THEN [c1 EXCEPT !.lineState = BitOr(@, PyLineStateMaskCloseBrace)]
        ELSE c1

\* a '<' in the default state
ScalaLessThanEntry(c) ==
    IF c.chNext = "/"
    THEN Forward(SetState([c EXCEPT !.xmlTagLevel = @ - 1], "XML_TAG"))
    ELSE IF IsXmlTagStart(c)
    THEN SetState([c EXCEPT !.xmlTagLevel = @ + 1], "XML_TAG")
    ELSE SetState(c, "OPERATOR")

ScalaDefault(c) ==
    IF Match2(c, "/", "/")
    THEN SetState([c EXCEPT !.lineState = IF c.visibleChars = 0
                                          THEN PyLineStateMaskCommentLine ELSE @,
                            !.visibleCharsBefore = c.visibleChars], "COMMENTLINE")
    ELSE IF Match2(c, "/", "*")
    THEN LET c1 == [c EXCEPT !.commentLevel = 1, !.visibleCharsBefore = c.visibleChars,
                             !.lineState = IF c.visibleChars = 0
                                           THEN PyLineStateMaskCommentLine ELSE @]
             c2 == Forward2(SetState(c1, "COMMENTBLOCK"))
         IN  Continue(IF c2.ch = "*" /\ c2.chNext # "*"
                      THEN ChangeState(c2, "COMMENTBLOCKDOC") ELSE c2)
    ELSE IF c.ch = DQ
    THEN LET interpolated == c.stylePrevNonWhite # "NUMBER" /\ IsScalaIdentifierChar(c.chPrev)
             c1 == SetState(c, IF interpolated THEN "INTERPOLATED_STRING" ELSE "STRING")
         IN  IF MatchNext2(c1, DQ, DQ)
             THEN Advance(SetState(c1, TripleOf(c1.state)), 2)
             ELSE c1
    ELSE IF c.ch = SQ
    THEN SetState(c, IF (c.chNext = "{" \/ IsScalaIdentifierStart(c.chNext))
                        /\ GetCharAfterNext(c) # SQ
                     THEN (IF c.chNext = "{" THEN "OPERATOR" ELSE "SYMBOL")
                     ELSE "CHARACTER")
    ELSE IF c.ch = "<"
    THEN ScalaLessThanEntry(c)
    ELSE IF c.ch = BQ
    THEN SetState(c, "BACKTICKS")
    ELSE IF IsNumberStart(c.ch, c.chNext)
    THEN SetState(c, "NUMBER")
    ELSE IF IsScalaIdentifierStart(c.ch)
    THEN SetState([c EXCEPT !.escOuter = "DEFAULT", !.chBefore = c.chPrevNonWhite],
                  "IDENTIFIER")
    ELSE IF c.ch = "@" /\ IsScalaIdentifierStart(c.chNext)
    THEN SetState(c, "ANNOTATION")
    ELSE IF IsAGraphic(c.ch)
    THEN ScalaGraphicEntry(c)
    ELSE c

(***************************************************************************)
(* ColouriseScalaDoc: the end of an iteration, and the LineState written   *)
(* at a line end.                                                          *)
(***************************************************************************)
\* lineState |= (commentLevel << 8) | (indentCount << 16)
\* the comment depth shifted into the flag bits
EncodeLineStateNarrow(flags, commentLevel, indentCount) ==
    BitOr(flags, BitOr(ShiftLeft(commentLevel, 4), ShiftLeft(indentCount, 16)))

EncodeLineState(flags, commentLevel, indentCount) ==
    BitOr(flags, BitOr(ShiftLeft(commentLevel, 8), ShiftLeft(indentCount, 16)))

\* commentLevel = (lineState >> 8) & 0xff
DecodeCommentLevel(lineState) == BitAnd(ShiftRight(lineState, 8), 255)

ScalaCountVisible(c) ==
    LET c1 == IF c.visibleChars = 0 /\ IsASpaceOrTab(c.ch)
              THEN [c EXCEPT !.indentCount = @ + 1] ELSE c
    IN  IF ~isspacechar(c1.ch)
        THEN [c1 EXCEPT !.visibleChars = @ + 1,
                        !.chPrevNonWhite = IF ~ScalaIsSpaceEquiv(c1.state) THEN c1.ch ELSE @,
                        !.stylePrevNonWhite = IF ~ScalaIsSpaceEquiv(c1.state)
                                              THEN c1.state ELSE @]
        ELSE c1

\* the line flags without the nested-region test
ScalaLineFlagsFlat(c) ==
    IF IsTripleString(c.state) THEN PyLineStateMaskTripleQuote
    ELSE IF c.lineState = 0 /\ c.visibleChars = 0 THEN PyLineStateMaskEmptyLine
    ELSE c.lineState

ScalaLineFlags(c) ==
    IF c.nestedState # <<>> \/ c.xmlTagLevel # 0
    THEN BitOr(PyLineStateStringInterpolation, PyLineStateMaskTripleQuote)
    ELSE IF IsTripleString(c.state) THEN PyLineStateMaskTripleQuote
    ELSE IF c.lineState = 0 /\ c.visibleChars = 0 THEN PyLineStateMaskEmptyLine
    ELSE c.lineState

\* ScalaLineEnd without the reset of the indent count
ScalaLineEndKeepIndent(c) ==
    IF c.atLineEnd
    THEN [c EXCEPT !.lineStates = (c.currentLine :> EncodeLineState(ScalaLineFlags(c),
                                        c.commentLevel, c.indentCount)) @@ @,
                   !.written = Append(@, c.currentLine),
                   !.lineState = 0, !.visibleChars = 0,
                   !.visibleCharsBefore = 0, !.kwType = "None"]
    ELSE c

ScalaLineEnd(c) ==
    IF c.atLineEnd
    THEN [c EXCEPT !.lineStates = (c.currentLine :> EncodeLineState(ScalaLineFlags(c),
                                        c.commentLevel, c.indentCount)) @@ @,
                   !.written = Append(@, c.currentLine),
                   !.lineState = 0, !.indentCount = 0, !.visibleChars = 0,
                   !.visibleCharsBefore = 0, !.kwType = "None"]
    ELSE c

\* one iteration of the while loop
ScalaIteration(c) ==
    LET a == ScalaSwitch(c)
        b == IF ~a.cont /\ a.state = "DEFAULT" THEN ScalaDefault(a) ELSE a
    IN  IF b.cont
        THEN [b EXCEPT !.cont = FALSE]
        ELSE Forward(ScalaLineEnd(ScalaCountVisible(b)))

(***************************************************************************)
(* The start of a scan (lexlib/LexerUtils.cxx and the lines before the     *)
(* loop of ColouriseScalaDoc).                                             *)
(***************************************************************************)
\* BacktrackToStart: the line a scan asked to start at startLine starts at
RECURSIVE BacktrackLine(_, _, _)
BacktrackLine(lineStates, line, stateMask) ==
    LET ls == IF line \in DOMAIN lineStates THEN lineStates[line] ELSE 0
    IN  IF BitAnd(ls, stateMask) # 0 /\ line # 0
        THEN BacktrackLine(lineStates, line - 1, stateMask)
        ELSE IF BitAnd(ls, stateMask) = 0 THEN line + 1 ELSE line

BacktrackToStart(lineStates, stateMask, startPos) ==
    LET currentLine == GetLine(startPos)
        line == IF currentLine # 0
                THEN BacktrackLine(lineStates, currentLine - 1, stateMask)
                ELSE currentLine
    IN  IF line # currentLine THEN LineStart(line) ELSE startPos

\* the lines whose LineState BacktrackToStart reads: from the line before
\* the start line down to the line its loop stops at
BacktrackReads(lineStates, stateMask, startPos) ==
    LET currentLine == GetLine(startPos)
        line == IF currentLine # 0
                THEN BacktrackLine(lineStates, currentLine - 1, stateMask)
                ELSE currentLine
    IN  IF currentLine = 0 THEN {}
        ELSE (IF line = 0 THEN 0 ELSE line - 1)..(currentLine - 1)

\* LookbackNonWhite: the last character before startPos whose style is
\* above maxSpaceStyle, as <<character, style>>
LookbackNonWhite(styles, startPos, spaceStyles, chDefault, styleDefault) ==
    LET found == {p \in 0..(startPos - 1) : styles[p + 1] \notin spaceStyles}
    IN  IF found = {} THEN <<chDefault, styleDefault>>
        ELSE LET p == CHOOSE q \in found : \A r \in found : r <= q
             IN  <<CharAt(p), styles[p + 1]>>

ScalaLocals ==
    [kwType |-> "None", commentLevel |-> 0, nestedState |-> <<>>, lineState |-> 0,
     visibleChars |-> 0, indentCount |-> 0, xmlTagLevel |-> 0, chBefore |-> NUL,
     visibleCharsBefore |-> 0, chPrevNonWhite |-> NUL, stylePrevNonWhite |-> "DEFAULT",
     escOuter |-> "DEFAULT", escDigits |-> 0]

\* the state of ColouriseScalaDoc when it enters its loop
ScalaStart(startPos0, endPos, initStyle0, styles, lineStates) ==
    LET startPos == IF startPos0 # 0
                    THEN BacktrackToStart(lineStates, PyLineStateStringInterpolation, startPos0)
                    ELSE startPos0
        initStyle == IF startPos = startPos0 THEN initStyle0
                     ELSE IF startPos = 0 THEN "DEFAULT"
                     ELSE styles[startPos]
        sc == NewStyleContext(startPos, endPos - startPos, initStyle, styles, lineStates)
        c0 == sc @@ ScalaLocals
        backRead == IF startPos0 # 0
                    THEN BacktrackReads(lineStates, PyLineStateStringInterpolation, startPos0)
                    ELSE {}
        c1 == IF sc.currentLine > 0
              THEN [c0 EXCEPT !.commentLevel =
                                DecodeCommentLevel(GetLineState(c0, sc.currentLine - 1)),
                              !.read = backRead \cup {sc.currentLine - 1}]
              ELSE [c0 EXCEPT !.read = backRead]
    IN  IF startPos = 0
        THEN IF Match2(c1, "#", "!") THEN Forward(SetState(c1, "COMMENTLINE")) ELSE c1
        ELSE IF ScalaIsSpaceEquiv(initStyle)
        THEN LET found == LookbackNonWhite(styles, startPos, ScalaSpaceStyles,
                                           c1.chPrevNonWhite, c1.stylePrevNonWhite)
             IN  [c1 EXCEPT !.chPrevNonWhite = found[1], !.stylePrevNonWhite = found[2]]
        ELSE c1

(***************************************************************************)
(* Documents: sequences of at most n tokens of a token set, a token being  *)
(* a sequence of characters.                                               *)
(***************************************************************************)
RECURSIVE Flatten(_)
Flatten(ts) == IF ts = <<>> THEN <<>> ELSE Head(ts) \o Flatten(Tail(ts))

DocsOf(tokens, n) == {Flatten(ts) : ts \in UNION {[1..k -> tokens] : k \in 0..n}}

BlankStyles(d) == [p \in 1..Len(d) |-> "DEFAULT"]

NoLineStates == [line \in {} |-> 0]

NoFold == [pos |-> 0]

NoCodec == [flags |-> 0]

\* what the properties read of a pass: the iterations taken, the deepest
\* context stack, the iterations in a row that did not move the cursor on,
\* the farthest an iteration moved the cursor back, and the positions just
\* past a close marker that took commentLevel to 0, and the state the
\* latest escape sequence began in
NoHist ==
    [iters |-> 0, maxDepth |-> 0, stall |-> 0, back |-> 0, closes |-> {},
     escFrom |-> "DEFAULT"]

(***************************************************************************)
(* The driver of the Scala lexer: one unsplit pass over the document and,  *)
(* when split > 0, a pass over the lines before line split followed by a   *)
(* pass that resumes at that line on the first pass's styles and           *)
(* LineStates.                                                             *)
(***************************************************************************)
MaxScalaTokens == 4

\* the pieces of nested interpolation: a"  ${  {  }  "  and a line end
ScalaTokens ==
    {<<"a", DQ>>, <<"$", "{">>, <<"{">>, <<"}">>, <<DQ>>, <<NL>>}

\* "${"${1}"}" and s"${s"${1}"}"
PlainNestingExample == <<DQ, "$", "{", DQ, "$", "{", "1", "}", DQ, "}", DQ>>

InterpolatedNestingExample ==
    <<"s", DQ, "$", "{", "s", DQ, "$", "{", "1", "}", DQ, "}", DQ>>

\* a"${{}}" and (<a>{a}</a>)
BraceNestingExample == <<"a", DQ, "$", "{", "{", "}", "}", DQ>>

MarkupNestingExample == <<"(", "<", "a", ">", "{", "a", "}", "<", "/", "a", ">", ")">>

ScalaDocs ==
    DocsOf(ScalaTokens, MaxScalaTokens)
        \cup {PlainNestingExample, InterpolatedNestingExample, BraceNestingExample,
              MarkupNestingExample}

\* the lines before which a driver may split the document
LineSplits(d) == {k \in 1..Len(d) : Len(SelectSeq(d, LAMBDA x : x = NL)) >= k}

\* resume: the document is styled in two passes, split before a later line
InitScalaOn(docs, resume) ==
    /\ doc \in docs
    /\ lexer = "scala"
    /\ pc = "scan"
    /\ pass = "full"
    /\ split \in (IF resume THEN LineSplits(doc) ELSE {0})
    /\ m = ScalaStart(0, DocLen, "DEFAULT", BlankStyles(doc), NoLineStates)
    /\ fullStyles = <<>>
    /\ fold = NoFold
    /\ hist = NoHist
    /\ codec = NoCodec

InitScala == InitScalaOn(ScalaDocs, FALSE)

ScalaStep ==
    /\ lexer = "scala"
    /\ pc = "scan"
    /\ More(m)
    /\ m' = ScalaIteration(m)
    /\ hist' = [iters |-> hist.iters + 1,
                maxDepth |-> IF Len(m'.nestedState) > hist.maxDepth
                             THEN Len(m'.nestedState) ELSE hist.maxDepth,
                stall |-> IF m'.pos > m.pos THEN 0 ELSE hist.stall + 1,
                back |-> IF m.pos - m'.pos > hist.back THEN m.pos - m'.pos ELSE hist.back,
                closes |-> IF m.commentLevel > 0 /\ ScalaSwitch(m).commentLevel = 0
                           THEN hist.closes \cup {m.pos + 2} ELSE hist.closes,
                escFrom |-> IF m.state # "ESCAPECHAR" /\ m'.state = "ESCAPECHAR"
                            THEN m.state ELSE hist.escFrom]
    /\ UNCHANGED <<doc, lexer, pc, pass, split, fullStyles, fold, codec>>

\* the loop is left: sc.Complete(), and the driver starts its next pass
ScalaComplete ==
    /\ lexer = "scala"
    /\ pc = "scan"
    /\ ~More(m)
    /\ LET done == Complete(m)
           at == LineStart(split)
       IN  CASE pass = "full" /\ split = 0 ->
                  /\ m' = done
                  /\ pc' = "done"
                  /\ UNCHANGED <<pass, fullStyles, hist>>
             [] pass = "full" /\ split # 0 ->
                  /\ m' = ScalaStart(0, at, "DEFAULT", BlankStyles(doc), NoLineStates)
                  /\ pass' = "first"
                  /\ fullStyles' = done.styles
                  /\ hist' = NoHist
                  /\ UNCHANGED pc
             [] pass = "first" ->
                  /\ m' = ScalaStart(at, DocLen, done.styles[at], done.styles,
                                     done.lineStates)
                  /\ pass' = "second"
                  /\ hist' = NoHist
                  /\ UNCHANGED <<pc, fullStyles>>
             [] OTHER ->
                  /\ m' = done
                  /\ pc' = "done"
                  /\ UNCHANGED <<pass, fullStyles, hist>>
    /\ UNCHANGED <<doc, lexer, split, fold, codec>>

NextScala == ScalaStep \/ ScalaComplete

SpecScala == InitScala /\ [][NextScala]_vars

(***************************************************************************)
(* The context stack of the Scala scan.                                    *)
(***************************************************************************)
IsScanStep == pc = "scan" /\ pc' = "scan" /\ pass' = pass /\ m' # m

\* C3: a pop of the context stack happens only when the stack is non-empty and
\* switches the automaton to the state on top of the stack, the one the
\* matching push saved; a push adds one state to the top; a closing brace met
\* in the default state with the stack empty becomes a plain operator and
\* leaves the stack empty.
ContextStackSafety ==
    [][(lexer = "scala" /\ IsScanStep) =>
          LET before == m.nestedState
              after == m'.nestedState
          IN  /\ Len(after) < Len(before) =>
                    /\ before # <<>>
                    /\ after = SubSeq(before, 1, Len(before) - 1)
                    /\ m'.state = before[Len(before)]
                    /\ m.ch = "}"
              /\ Len(after) > Len(before) =>
                    /\ Len(after) = Len(before) + 1
                    /\ SubSeq(after, 1, Len(before)) = before
              /\ Len(after) = Len(before) => after = before
              /\ (m.state = "DEFAULT" /\ m.ch = "}" /\ before = <<>>) =>
                    /\ after = <<>>
                    /\ m'.state = "OPERATOR"
                    /\ m'.pos = m.pos + 1]_vars

\* two pushes of different states were popped in order: the scan is back in
\* the interpolated string that made the first push
ContextStackPopped ==
    /\ lexer = "scala"
    /\ doc = BraceNestingExample
    /\ hist.maxDepth = 2
    /\ m.nestedState = <<>>
    /\ m.state = "INTERPOLATED_STRING"
    /\ m.pos = 7

\* C6 as stated: the scan of "${"${1}"}" reaches stack depth 2 and ends at
\* depth 0.
PlainNestingReachesDepthTwo ==
    (lexer = "scala" /\ pc = "done" /\ doc = PlainNestingExample) =>
        (hist.maxDepth = 2 /\ m.nestedState = <<>>)

\* C6: the scan of s"${s"${1}"}", whose strings carry an interpolator prefix,
\* reaches stack depth 2 at its deepest point and ends at depth 0 after both
\* closing braces; "${"${1}"}" opens plain strings, and its scan never leaves
\* depth 0.
InterpolationNestingDepth ==
    /\ (lexer = "scala" /\ doc = InterpolatedNestingExample) =>
          /\ Len(m.nestedState) <= 2
          /\ pc = "done" => (hist.maxDepth = 2 /\ m.nestedState = <<>> /\ m.pos = DocLen)
    /\ (lexer = "scala" /\ doc = PlainNestingExample) =>
          (hist.maxDepth = 0 /\ m.nestedState = <<>>)

InterpolationNestingDone ==
    /\ lexer = "scala"
    /\ pc = "done"
    /\ doc = InterpolatedNestingExample
    /\ hist.maxDepth = 2
    /\ m.styles[12] = "OPERATOR2"

(***************************************************************************)
(* Nested block comments.                                                  *)
(***************************************************************************)
MaxCommentTokens == 4

CommentTokens ==
    {<<"/", "*">>, <<"*", "/">>, <<"/">>, <<"*">>, <<"a">>, <<NL>>}

\* /* a /* b */ c */
NestedCommentExample ==
    <<"/", "*", " ", "a", " ", "/", "*", " ", "b", " ", "*", "/", " ", "c", " ", "*", "/">>

InitComment ==
    InitScalaOn(DocsOf(CommentTokens, MaxCommentTokens) \cup {NestedCommentExample}, FALSE)

SpecComment == InitComment /\ [][NextScala]_vars

\* the markers of a comment read left to right from position q at depth d:
\* the positions between markers and characters, each with its depth, up to
\* the position just past the close marker that takes the depth to 0
RECURSIVE MarkerWalk(_, _)
MarkerWalk(q, d) ==
    IF d = 0 \/ q >= DocLen THEN {<<q, d>>}
    ELSE {<<q, d>>} \cup
         (IF CharAt(q) = "*" /\ CharAt(q + 1) = "/" THEN MarkerWalk(q + 2, d - 1)
          ELSE IF CharAt(q) = "/" /\ CharAt(q + 1) = "*" THEN MarkerWalk(q + 2, d + 1)
          ELSE MarkerWalk(q + 1, d))

BlockCommentStates == {"COMMENTBLOCK", "COMMENTBLOCKDOC"}

\* C4: in a document that opens with /*, the comment is one token up to the
\* close marker that balances the first open marker: inside it the scan is in
\* a block comment state, the nesting counter is the count of open markers
\* minus the count of close markers read so far (overlapping sequences such as
\* /*/ and */* read left to right), and the counter reaches 0 at that final
\* close marker and nowhere before it.
NestedBlockComment ==
    (lexer = "scala" /\ DocLen >= 2 /\ CharAt(0) = "/" /\ CharAt(1) = "*") =>
        LET walk == MarkerWalk(2, 1)
            balanced == \E w \in walk : w[2] = 0
            end == IF balanced THEN (CHOOSE w \in walk : w[2] = 0)[1] ELSE DocLen
        IN  /\ (m.pos >= 2 /\ m.pos < end) =>
                  /\ m.state \in BlockCommentStates
                  /\ <<m.pos, m.commentLevel>> \in walk
                  /\ m.commentLevel >= 1
            /\ \A q \in hist.closes : q >= end
            /\ (balanced /\ m.pos >= end) => end \in hist.closes
            /\ pc = "done" =>
                  \A q \in 1..end : m.styles[q] = m.styles[1]
                                    /\ m.styles[q] \in BlockCommentStates

NestedCommentDone ==
    /\ lexer = "scala"
    /\ pc = "done"
    /\ doc = NestedCommentExample
    /\ hist.closes = {DocLen}
    /\ m.commentLevel = 0

(***************************************************************************)
(* Triple-quoted strings.                                                  *)
(***************************************************************************)
MaxTripleTokens == 6

TripleTokens == {<<DQ>>, <<"a">>, <<BSL>>}

\* """a""""
TripleQuoteExample == <<DQ, DQ, DQ, "a", DQ, DQ, DQ, DQ>>

TripleDocs ==
    {prefix \o <<DQ, DQ, DQ>> \o d :
        prefix \in {<<>>, <<"a">>}, d \in DocsOf(TripleTokens, MaxTripleTokens)}

InitTriple == InitScalaOn(TripleDocs, FALSE)

SpecTriple == InitTriple /\ [][NextScala]_vars

\* the number of double quotes in a row from position p on
RECURSIVE QuoteRun(_)
QuoteRun(p) == IF CharAt(p) = DQ THEN 1 + QuoteRun(p + 1) ELSE 0

\* C5 as stated: inside a triple-quoted string every run of at least three
\* double quotes closes the string.  Here: a document that is an opening """,
\* text without quotes, and a run of at least three quotes up to its end is
\* left in the default state.
EveryQuoteRunCloses ==
    (lexer = "scala" /\ pc = "done"
       /\ \E p \in 4..DocLen :
             /\ \A q \in 4..p : doc[q] # DQ
             /\ QuoteRun(p) >= 3
             /\ p + QuoteRun(p) = DocLen
             /\ doc[1] = DQ)
        => m.state = "DEFAULT"

\* C5: when the scan, in a triple-quoted string state, meets a double quote
\* that starts n quotes in a row, then for n >= 3 it consumes all n, the
\* first n - 3 as string content and the last three as the close, and
\* continues in the default state; for n < 3 it stays in the string and
\* moves one character on.  A quote that follows a backslash is consumed by
\* the escape sequence and is met in the escape state, not in the string.
TripleQuoteClosing ==
    [][(lexer = "scala" /\ IsScanStep /\ IsTripleString(m.state) /\ m.ch = DQ) =>
          LET n == QuoteRun(m.pos)
          IN  IF n >= 3
              THEN /\ m'.pos = m.pos + n
                   /\ m'.state = "DEFAULT"
                   /\ \A q \in (m.pos + 1)..(m.pos + n) : m'.styles[q] = m.state
              ELSE /\ m'.pos = m.pos + 1
                   /\ m'.state = m.state]_vars

TripleQuoteExampleClosed ==
    /\ lexer = "scala"
    /\ doc = TripleQuoteExample
    /\ m.pos = 8
    /\ m.state = "DEFAULT"
    /\ m.styles[5] = "TRIPLE_STRING"
    /\ hist.iters = 3

(***************************************************************************)
(* Resuming the Scala scan at a line boundary.                             *)
(***************************************************************************)
MaxResumeTokens == 5

\* an unterminated string "a, an identifier, a line end and a '<'
ResumeTokens == {<<DQ, "a">>, <<"a">>, <<NL>>, <<"<">>}


InitResume == InitScalaOn(DocsOf(ResumeTokens, MaxResumeTokens), TRUE)

SpecResume == InitResume /\ [][NextScala]_vars

\* C1: a pass over the lines before a line boundary followed by a pass that
\* resumes at the boundary, seeded from the first pass's styles and
\* LineStates, gives every character the category the unsplit pass gives it.
ResumeMatchesFull ==
    (lexer = "scala" /\ pc = "done" /\ pass = "second") => m.styles = fullStyles

(***************************************************************************)
(* Markup tags and comparisons.                                            *)
(***************************************************************************)
MaxXmlTokens == 4

XmlTokens == {<<"a">>, <<" ">>, <<"<">>, <<"/">>, <<"(">>, <<">">>}

\* a < b    (<tag/>)    a </b
ComparisonExample == <<"a", " ", "<", " ", "b">>

TagExample == <<"(", "<", "t", "a", "g", "/", ">", ")">>

CloseTagExample == <<"a", " ", "<", "/", "b">>

InitXml ==
    InitScalaOn(DocsOf(XmlTokens, MaxXmlTokens)
                    \cup {ComparisonExample, TagExample, CloseTagExample}, FALSE)

SpecXml == InitXml /\ [][NextScala]_vars

\* the last character before position p that is not white space, NUL when
\* there is none
RECURSIVE PrevVisibleChar(_)
PrevVisibleChar(p) ==
    IF p = 0 THEN NUL
    ELSE IF CharAt(p - 1) \in {" ", NL} THEN PrevVisibleChar(p - 1)
    ELSE CharAt(p - 1)

\* a '<' at position p may start a tag: right after an opening parenthesis or
\* brace, or after white space (or at the start of the text) when the text
\* before it does not end in an identifier or a closing bracket
IsTagPosition(p) ==
    \/ (p > 0 /\ CharAt(p - 1) \in {"(", "{"})
    \/ /\ (p = 0 \/ CharAt(p - 1) \in {" ", NL})
       /\ ~IsScalaIdentifierChar(PrevVisibleChar(p))
       /\ PrevVisibleChar(p) \notin {")", "]"}

\* C8: a '<' met in the default state starts a markup tag, or changes the tag
\* nesting depth, only in a tag position; anywhere else, as after the
\* identifier of a < b, it becomes an operator and the depth is unchanged.
MarkupOnlyAtTagPosition ==
    [][(lexer = "scala" /\ IsScanStep /\ m.state = "DEFAULT" /\ m.ch = "<"
          /\ ~IsTagPosition(m.pos)) =>
          /\ m'.xmlTagLevel = m.xmlTagLevel
          /\ "XML_TAG" \notin {m'.styles[q] : q \in 1..m'.segStart} \cup {m'.state}]_vars

(***************************************************************************)
(* LexZig.cxx: the placeholder grammar.                                    *)
(***************************************************************************)
IsBraceFormatSpecifier(ch) ==
    ch \in {"b", "c", "d", "e", "f", "g", "o", "s", "u", "x", "X", "?", "!", "*", "a"}

IsBraceFormatNext(ch) ==
    ch = "}" \/ IsADigit(ch) \/ ch = "[" \/ ch = ":" \/ ch = "." \/ IsBraceFormatSpecifier(ch)

IsFormatArgument(ch, fmtArgument) ==
    IsADigit(ch) \/ (fmtArgument = "Identifier" /\ IsIdentifierCharEx(ch))

AlignmentChars == {"<", ">", "^"}

\* while (IsADigit(ch)) ch = styler[++pos];
RECURSIVE SkipDigits(_)
SkipDigits(p) == IF IsADigit(CharAt(p)) THEN SkipDigits(p + 1) ELSE p

\* [[fill] alignment]: the position after the pair, p when there is none
SkipFillAlignment(p) ==
    IF CharAt(p) \notin {NL, "{", "}"}
       /\ (CharAt(p) \in AlignmentChars \/ CharAt(p + 1) \in AlignmentChars)
    THEN p + 2
    ELSE p

\* the walk of CheckBraceFormatSpecifier from sc.currentPos: the length to
\* the '}' that ends the directive, 0 when the text is no directive, and the
\* positions the walk passes to styler[]
BraceFormatSpecifierWalk(c) ==
    LET isSpec == IsBraceFormatSpecifier(c.ch)
        p1 == IF isSpec
              THEN c.pos + 1 + (IF c.ch = "a" /\ c.chNext = "n" /\ GetRelative(c, 2) = "y"
                                THEN 2 ELSE 0)
              ELSE c.pos
        ch1 == IF isSpec THEN CharAt(p1) ELSE c.ch
        p2 == IF ch1 = ":" THEN p1 + 1 ELSE p1
        p3 == SkipFillAlignment(p2)
        p4 == SkipDigits(p3)
        p5 == IF CharAt(p4) = "." THEN SkipDigits(p4 + 1) ELSE p4
    IN  IF isSpec /\ ch1 \notin {":", ".", "}", "<", ">", "^"}
        THEN [length |-> 0, reads |-> {p1}]
        ELSE [length |-> IF CharAt(p5) = "}" THEN p5 - c.pos ELSE 0,
              reads |-> {q \in (c.pos + 1)..(p5 + 1) :
                           \/ isSpec /\ q = p1
                           \/ ch1 = ":" /\ q = p2
                           \/ CharAt(p2) \notin {NL, "{", "}"} /\ q = p2 + 1
                           \/ p2 < q /\ q <= p5}]

CheckBraceFormatSpecifier(c) == BraceFormatSpecifierWalk(c).length

\* state <= SCE_ZIG_TASKMARKER
ZigIsSpaceEquiv(state) ==
    state \in {"DEFAULT", "COMMENTLINE", "COMMENTLINEDOC", "COMMENTLINETOP", "TASKMARKER"}

ZigLineStateMaskLineComment == 1
ZigLineStateMaskMultilineString == 2

ZigKeywordList == {<<"f", "n">>, <<"i", "f">>}

ZigTypeList == {<<"u", "8">>}

(***************************************************************************)
(* ColouriseZigDoc: the cases of the switch on sc.state.                   *)
(***************************************************************************)
ZigOperatorCase(c) == SetState(c, "DEFAULT")

ZigNumberCase(c) ==
    IF ~IsDecimalNumber(c.chPrev, c.ch, c.chNext) THEN SetState(c, "DEFAULT") ELSE c

ZigIdentifierCase(c) ==
    IF ~IsIdentifierCharEx(c.ch)
    THEN LET s == GetCurrent(c)
             c1 == IF c.state = "IDENTIFIER"
                   THEN IF s \in ZigKeywordList
                        THEN [ChangeState(c, "WORD") EXCEPT
                                !.kwType = IF s = <<"f", "n">> THEN "Function" ELSE "None"]
                        ELSE IF s \in ZigTypeList THEN ChangeState(c, "TYPE")
                        ELSE IF c.kwType # "None" THEN ChangeState(c, "FUNCTION_DEFINITION")
                        ELSE IF GetLineNextChar(c) = "(" THEN ChangeState(c, "FUNCTION")
                        ELSE c
                   ELSE c
             c2 == IF c1.state # "WORD" THEN [c1 EXCEPT !.kwType = "None"] ELSE c1
         IN  SetState(c2, "DEFAULT")
    ELSE c

\* the '{' of a string that may open a placeholder
ZigOpenPlaceholder(c) ==
    LET c1 == [SetState([c EXCEPT !.escOuter = c.state], "PLACEHOLDER") EXCEPT
                 !.fmtArgument = "None"]
    IN  IF IsADigit(c1.chNext)
        THEN [c1 EXCEPT !.fmtArgument = "Digit"]
        ELSE IF c1.chNext = "["
        THEN LET c2 == [c1 EXCEPT !.fmtArgument = "Identifier"]
             IN  IF IsIdentifierStartEx(GetRelative(c2, 2)) THEN Forward(c2) ELSE c2
        ELSE c1

\* EscapeSequence::resetEscapeState(state, chNext)
ZigResetEscapeState(c, state, chNext) ==
    [c EXCEPT !.escOuter = state, !.escBrace = FALSE,
              !.escDigits = IF chNext = "x" THEN 3 ELSE IF chNext = "u" THEN 5 ELSE 1]

\* EscapeSequence::resetEscapeState(state)
ZigResetEscapeStateOne(c, state) ==
    [c EXCEPT !.escOuter = state, !.escDigits = 1, !.escBrace = FALSE]

ZigStringCase(c) ==
    IF c.atLineStart
    THEN SetState(c, "DEFAULT")
    ELSE IF c.ch = BSL /\ c.state # "MULTISTRING"
    THEN LET c1 == Forward(SetState(ZigResetEscapeState(c, c.state, c.chNext), "ESCAPECHAR"))
         IN  IF Match2(c1, "u", "{")
             THEN Forward([c1 EXCEPT !.escBrace = TRUE, !.escDigits = 7])
             ELSE c1
    ELSE IF (c.ch = SQ /\ c.state = "CHARACTER") \/ (c.ch = DQ /\ c.state = "STRING")
    THEN ForwardSetState(c, "DEFAULT")
    ELSE IF c.state # "CHARACTER" /\ c.ch \in {"{", "}"}
    THEN IF c.ch = c.chNext
         THEN Forward(SetState(ZigResetEscapeStateOne(c, c.state), "ESCAPECHAR"))
         ELSE IF c.ch = "{" /\ IsBraceFormatNext(c.chNext)
         THEN ZigOpenPlaceholder(c)
         ELSE c
    ELSE c

ZigEscapeCase(c) ==
    LET c1 == [c EXCEPT !.escDigits = @ - 1]
    IN  IF c1.escDigits <= 0 \/ ~IsHexDigit(c.ch)
        THEN LET c2 == IF c1.escBrace /\ c1.ch = "}" THEN Forward(c1) ELSE c1
             IN  Continue(SetState(c2, c2.escOuter))
        ELSE c1

\* the placeholder case from the call of CheckBraceFormatSpecifier on, walk
\* being that call's walk
ZigPlaceholderEnd(c1, walk) ==
    LET called == c1.fmtArgument # "Error"
        length == IF called THEN walk.length ELSE 0
        c2 == IF called
              THEN [c1 EXCEPT !.peeked = @ \cup walk.reads,
                              !.matched = IF length # 0 THEN @ \cup {c1.pos + length} ELSE @]
              ELSE c1
    IN  IF length # 0
        THEN Continue(ForwardSetState(
                 SetState(Advance(SetState(c2, "FORMAT_SPECIFIER"), length), "PLACEHOLDER"),
                 c2.escOuter))
        ELSE LET c3 == IF c2.fmtArgument = "Error" \/ c2.ch # "}"
                       THEN ChangeState(Rewind(c2), c2.escOuter)
                       ELSE c2
             IN  Continue(ForwardSetState(c3, c3.escOuter))

\* the failed placeholder rewound without the step past its '{'
ZigPlaceholderCaseNoForward(c) ==
    IF ~IsFormatArgument(c.ch, c.fmtArgument)
    THEN Continue(SetState(ChangeState(Rewind(c), c.escOuter), c.escOuter))
    ELSE c

ZigPlaceholderCase(c) ==
    IF ~IsFormatArgument(c.ch, c.fmtArgument)
    THEN LET c1 == IF c.fmtArgument = "Identifier"
                   THEN IF c.ch = "]" THEN Forward(c) ELSE [c EXCEPT !.fmtArgument = "Error"]
                   ELSE c
         IN  ZigPlaceholderEnd(c1, BraceFormatSpecifierWalk(c1))
    ELSE c

ZigCommentLineCase(c) ==
    IF c.atLineStart THEN SetState(c, "DEFAULT") ELSE c

ZigSwitch(c) ==
    CASE c.state = "OPERATOR" -> ZigOperatorCase(c)
      [] c.state = "NUMBER" -> ZigNumberCase(c)
      [] c.state \in {"IDENTIFIER", "BUILTIN_FUNCTION"} -> ZigIdentifierCase(c)
      [] c.state \in {"CHARACTER", "STRING", "MULTISTRING"} -> ZigStringCase(c)
      [] c.state = "ESCAPECHAR" -> ZigEscapeCase(c)
      [] c.state = "PLACEHOLDER" -> ZigPlaceholderCase(c)
      [] c.state \in {"COMMENTLINE", "COMMENTLINEDOC", "COMMENTLINETOP"} ->
            ZigCommentLineCase(c)
      [] OTHER -> c

ZigDefault(c) ==
    IF Match2(c, "/", "/")
    THEN LET c1 == Forward2(SetState(
                       [c EXCEPT !.lineState = IF c.visibleChars = 0
                                               THEN ZigLineStateMaskLineComment ELSE @],
                       "COMMENTLINE"))
         IN  IF c1.ch = "!" THEN ChangeState(c1, "COMMENTLINETOP")
             ELSE IF c1.ch = "/" /\ c1.chNext # "/" THEN ChangeState(c1, "COMMENTLINEDOC")
             ELSE c1
    ELSE IF Match2(c, BSL, BSL)
    THEN SetState([c EXCEPT !.lineState = ZigLineStateMaskMultilineString], "MULTISTRING")
    ELSE IF c.ch = DQ THEN SetState(c, "STRING")
    ELSE IF c.ch = SQ THEN SetState(c, "CHARACTER")
    ELSE IF IsNumberStart(c.ch, c.chNext) THEN SetState(c, "NUMBER")
    ELSE IF (c.ch = "@" /\ IsIdentifierStartEx(c.chNext)) \/ IsIdentifierStartEx(c.ch)
    THEN SetState(c, IF c.ch = "@" THEN "BUILTIN_FUNCTION" ELSE "IDENTIFIER")
    ELSE IF IsAGraphic(c.ch) THEN SetState(c, "OPERATOR")
    ELSE c

\* ZigLineEnd without the reset of the pending keyword flag
ZigLineEndKeepKeyword(c) ==
    LET c1 == IF c.visibleChars = 0 /\ ~isspacechar(c.ch)
              THEN [c EXCEPT !.visibleChars = @ + 1] ELSE c
    IN  IF c1.atLineEnd
        THEN [c1 EXCEPT !.lineStates = (c1.currentLine :> c1.lineState) @@ @,
                        !.written = Append(@, c1.currentLine),
                        !.lineState = 0, !.visibleChars = 0]
        ELSE c1

ZigLineEnd(c) ==
    LET c1 == IF c.visibleChars = 0 /\ ~isspacechar(c.ch)
              THEN [c EXCEPT !.visibleChars = @ + 1] ELSE c
    IN  IF c1.atLineEnd
        THEN [c1 EXCEPT !.lineStates = (c1.currentLine :> c1.lineState) @@ @,
                        !.written = Append(@, c1.currentLine),
                        !.lineState = 0, !.kwType = "None", !.visibleChars = 0]
        ELSE c1

\* one iteration of the while loop
ZigIteration(c) ==
    LET a == ZigSwitch(c)
        b == IF ~a.cont /\ a.state = "DEFAULT" THEN ZigDefault(a) ELSE a
    IN  IF b.cont
        THEN [b EXCEPT !.cont = FALSE]
        ELSE Forward(ZigLineEnd(b))

ZigLocals ==
    [kwType |-> "None", visibleChars |-> 0, lineState |-> 0, fmtArgument |-> "None",
     escOuter |-> "DEFAULT", escDigits |-> 0, escBrace |-> FALSE]

\* the state of ColouriseZigDoc when it enters its loop
ZigStart(startPos, length, initStyle, styles, lineStates) ==
    NewStyleContext(startPos, length, initStyle, styles, lineStates) @@ ZigLocals

(***************************************************************************)
(* The driver of the Zig lexer: one pass over the document.                *)
(***************************************************************************)
MaxZigTokens == 5

\* the pieces of a string with a placeholder: "{  0:  "  <  }  d  and a line end
ZigTokens ==
    {<<DQ, "{">>, <<"0", ":">>, <<DQ>>, <<"<">>, <<"}">>, <<"d">>, <<NL>>}

InitZigOn(docs) ==
    /\ doc \in docs
    /\ lexer = "zig"
    /\ pc = "scan"
    /\ pass = "full"
    /\ split = 0
    /\ m = ZigStart(0, DocLen, "DEFAULT", BlankStyles(doc), NoLineStates)
    /\ fullStyles = <<>>
    /\ fold = NoFold
    /\ hist = NoHist
    /\ codec = NoCodec

InitZig == InitZigOn(DocsOf(ZigTokens, MaxZigTokens))

ZigStep ==
    /\ lexer = "zig"
    /\ pc = "scan"
    /\ More(m)
    /\ m' = ZigIteration(m)
    /\ hist' = [hist EXCEPT !.iters = @ + 1,
                            !.stall = IF m'.pos > m.pos THEN 0 ELSE @ + 1,
                            !.back = IF m.pos - m'.pos > @ THEN m.pos - m'.pos ELSE @,
                            !.escFrom = IF m.state # "ESCAPECHAR" /\ m'.state = "ESCAPECHAR"
                                        THEN m.state ELSE @]
    /\ UNCHANGED <<doc, lexer, pc, pass, split, fullStyles, fold, codec>>

ZigComplete ==
    /\ lexer = "zig"
    /\ pc = "scan"
    /\ ~More(m)
    /\ m' = Complete(m)
    /\ pc' = "done"
    /\ UNCHANGED <<doc, lexer, pass, split, fullStyles, fold, hist, codec>>

NextZig == ZigStep \/ ZigComplete

SpecZig == InitZig /\ [][NextZig]_vars

\* C7: a placeholder never takes in the quote that closes its string: in
\* texts without backslashes, single quotes and comments every double quote
\* opens or closes a string literal and is styled as string, whatever
\* follows it on the line.
PlaceholderStopsAtQuote ==
    (lexer = "zig" /\ pc = "done") =>
        \A q \in 1..DocLen : doc[q] = DQ => m.styles[q] = "STRING"

(***************************************************************************)
(* FoldZigDoc, run over the whole document once the scan is complete.      *)
(***************************************************************************)
SC_FOLDLEVELBASE == 1024

SC_FOLDLEVELHEADERFLAG == 8192

SC_FOLDLEVELNUMBERMASK == 4095

FoldLineState(lineState) ==
    [lineComment |-> BitAnd(lineState, ZigLineStateMaskLineComment),
     multilineString |-> BitAnd(ShiftRight(lineState, 1), 1)]

\* the position of an operator-styled '{' that is the first character after
\* the blanks of line + 1, 0 when that line does not start with one
RECURSIVE SkipBlanks(_)
SkipBlanks(p) == IF CharAt(p) \in {" ", "\t"} THEN SkipBlanks(p + 1) ELSE p

BraceOnNextLine(c, line) ==
    LET p == SkipBlanks(LineStart(line + 1))
    IN  IF line + 1 < NumLines /\ CharAt(p) = "{" /\ StyleAt(c, p) = "OPERATOR"
        THEN p ELSE 0

\* CheckBraceOnNextLine(styler, line, SCE_ZIG_OPERATOR, SCE_ZIG_TASKMARKER):
\* the brace that starts the next line when the text that ends this line
\* takes it, 0 otherwise; takes says whether the end of this line does
CheckBraceOnNextLine(c, line, takes) ==
    IF takes THEN BraceOnNextLine(c, line) ELSE 0

\* levelNext = sci::max(levelNext, SC_FOLDLEVELBASE) without its effect
FoldClampNone(levelNext) == levelNext

FoldClamp(levelNext) ==
    IF levelNext > SC_FOLDLEVELBASE THEN levelNext ELSE SC_FOLDLEVELBASE

MinPos(a, b) == IF a < b THEN a ELSE b

\* the state of FoldZigDoc when it enters its loop
FoldZigStart(startPos0, lengthDoc, c, levels, takes) ==
    LET lineCurrent == GetLine(startPos0)
        bracePos == IF lineCurrent > 0
                    THEN CheckBraceOnNextLine(c, lineCurrent - 1, takes) ELSE 0
        levelCurrent == IF lineCurrent > 0
                        THEN ShiftRight(levels[lineCurrent - 1], 16)
                        ELSE SC_FOLDLEVELBASE
    IN  [startPos |-> IF bracePos # 0 THEN bracePos + 1 ELSE startPos0,
         endPos |-> startPos0 + lengthDoc,
         lineCurrent |-> lineCurrent,
         levelCurrent |-> levelCurrent,
         levelNext |-> levelCurrent,
         foldPrev |-> IF lineCurrent > 0
                      THEN FoldLineState(GetLineState(c, lineCurrent - 1))
                      ELSE FoldLineState(0),
         foldCurrent |-> FoldLineState(GetLineState(c, lineCurrent)),
         lineStartNext |-> MinPos(LineStart(lineCurrent + 1), startPos0 + lengthDoc),
         visibleChars |-> 0,
         levels |-> levels]

\* the end of a line inside the loop: startPos == lineStartNext
FoldLineEnd(f, c, takes) ==
    LET foldNext == FoldLineState(GetLineState(c, f.lineCurrent + 1))
        clamped == FoldClamp(f.levelNext)
        bracePos == IF f.foldCurrent.lineComment = 0 /\ f.foldCurrent.multilineString = 0
                       /\ f.visibleChars # 0
                    THEN CheckBraceOnNextLine(c, f.lineCurrent, takes) ELSE 0
        levelNext == IF f.foldCurrent.lineComment # 0
                     THEN clamped + foldNext.lineComment - f.foldPrev.lineComment
                     ELSE IF f.foldCurrent.multilineString # 0
                     THEN clamped + foldNext.multilineString - f.foldPrev.multilineString
                     ELSE IF bracePos # 0 THEN clamped + 1
                     ELSE clamped
        levelUse == f.levelCurrent
        lev == BitOr(BitOr(levelUse, ShiftLeft(levelNext, 16)),
                     IF levelUse < levelNext THEN SC_FOLDLEVELHEADERFLAG ELSE 0)
    IN  [f EXCEPT !.startPos = IF bracePos # 0 THEN bracePos + 1 ELSE @,
                  !.levels = (f.lineCurrent :> lev) @@ @,
                  !.lineCurrent = @ + 1,
                  !.lineStartNext = MinPos(LineStart(f.lineCurrent + 2), f.endPos),
                  !.levelCurrent = levelNext,
                  !.levelNext = levelNext,
                  !.foldPrev = f.foldCurrent,
                  !.foldCurrent = foldNext,
                  !.visibleChars = 0]

\* one iteration of the while loop
FoldIteration(f, c, takes) ==
    LET initStyle == StyleAt(c, f.startPos)
        ch == CharAt(f.startPos)
        f1 == [f EXCEPT
                 !.levelNext = IF initStyle = "OPERATOR" /\ ch \in {"{", "[", "("} THEN @ + 1
                               ELSE IF initStyle = "OPERATOR" /\ ch \in {"}", "]", ")"}
                               THEN @ - 1
                               ELSE @,
                 !.visibleChars = IF @ = 0 /\ ~ZigIsSpaceEquiv(initStyle) THEN @ + 1 ELSE @,
                 !.startPos = @ + 1]
    IN  IF f1.startPos = f1.lineStartNext THEN FoldLineEnd(f1, c, takes) ELSE f1

NoLevels == [line \in {} |-> 0]

FoldBegin ==
    /\ lexer = "zig"
    /\ pc = "done"
    /\ pc' = "fold"
    /\ fold' = FoldZigStart(0, DocLen, m, NoLevels, FALSE)
    /\ UNCHANGED <<doc, lexer, pass, split, m, fullStyles, hist, codec>>

FoldStep ==
    /\ pc = "fold"
    /\ fold.startPos < fold.endPos
    /\ \E takes \in BOOLEAN : fold' = FoldIteration(fold, m, takes)
    /\ UNCHANGED <<doc, lexer, pc, pass, split, m, fullStyles, hist, codec>>

FoldEnd ==
    /\ pc = "fold"
    /\ fold.startPos >= fold.endPos
    /\ pc' = "folded"
    /\ UNCHANGED <<doc, lexer, pass, split, m, fullStyles, fold, hist, codec>>

MaxFoldTokens == 4

\* braces, a word, a line end, a line comment, a multi-line string line and a
\* string that holds a brace
FoldTokens ==
    {<<"{">>, <<"}">>, <<"a">>, <<NL>>, <<"/", "/">>, <<BSL, BSL>>, <<DQ, "{", DQ>>}

InitFold == InitZigOn(DocsOf(FoldTokens, MaxFoldTokens))

NextFold == ZigStep \/ ZigComplete \/ FoldBegin \/ FoldStep \/ FoldEnd

SpecFold == InitFold /\ [][NextFold]_vars

\* the operator-styled openers minus the operator-styled closers of a line
BraceBalance(line) ==
    LET on == LineStart(line)..(LineStart(line + 1) - 1)
    IN  Cardinality({q \in on : StyleAt(m, q) = "OPERATOR" /\ CharAt(q) \in {"{", "[", "("}})
        - Cardinality({q \in on : StyleAt(m, q) = "OPERATOR" /\ CharAt(q) \in {"}", "]", ")"}})

IsPlainLine(line) ==
    /\ FoldLineState(GetLineState(m, line)).lineComment = 0
    /\ FoldLineState(GetLineState(m, line)).multilineString = 0

LevelStartOf(lev) == BitAnd(lev, SC_FOLDLEVELNUMBERMASK)

LevelEndOf(lev) == ShiftRight(lev, 16)

\* C10 as stated: on every line that is neither a line-comment line nor a
\* multi-line-string line the level at the end of the line is the level at
\* its start plus the operator-styled openers minus the operator-styled
\* closers of the line.
FoldLevelIsBraceSum ==
    (lexer = "zig" /\ pc \in {"fold", "folded"}) =>
        \A line \in DOMAIN fold.levels :
            IsPlainLine(line) =>
                LevelEndOf(fold.levels[line])
                    = LevelStartOf(fold.levels[line]) + BraceBalance(line)

\* C10: the start level of the first line is SC_FOLDLEVELBASE and the start
\* level of every other line is the end level of the line before it.  On a
\* line that is neither a line-comment line nor a multi-line-string line,
\* when neither that line nor the line after it starts with an
\* operator-styled '{' (a brace the line before may take as its own), the
\* end level is the start level plus the operator-styled openers minus the
\* operator-styled closers of the line, but never below SC_FOLDLEVELBASE.
FoldLevelByBraces ==
    (lexer = "zig" /\ pc \in {"fold", "folded"}) =>
        \A line \in DOMAIN fold.levels :
            LET start == LevelStartOf(fold.levels[line])
                end == LevelEndOf(fold.levels[line])
                sum == start + BraceBalance(line)
            IN  /\ line = 0 => start = SC_FOLDLEVELBASE
                /\ line > 0 => /\ line - 1 \in DOMAIN fold.levels
                               /\ start = LevelEndOf(fold.levels[line - 1])
                /\ (IsPlainLine(line) /\ BraceOnNextLine(m, line) = 0
                      /\ (line > 0 => BraceOnNextLine(m, line - 1) = 0)) =>
                        end = IF sum > SC_FOLDLEVELBASE THEN sum ELSE SC_FOLDLEVELBASE

\* a fold in which one line opened a level and a later closer was held at
\* the base level
FoldClampedAtBase ==
    /\ lexer = "zig"
    /\ pc = "folded"
    /\ \E line \in DOMAIN fold.levels :
          /\ IsPlainLine(line)
          /\ BraceBalance(line) = -2
          /\ LevelStartOf(fold.levels[line]) = SC_FOLDLEVELBASE + 1
          /\ LevelEndOf(fold.levels[line]) = SC_FOLDLEVELBASE

(***************************************************************************)
(* The LineState of the Scala scan as a codec: the integer built at a line *)
(* end and the fields read back from it.                                   *)
(***************************************************************************)
\* the flag bits and the indent width of a LineState, as its readers take them
DecodeFlags(lineState) == BitAnd(lineState, 255)

DecodeIndentCount(lineState) == ShiftRight(lineState, 16)

\* every set of the five line flags
CodecFlags ==
    {BitOr(a, BitOr(b, BitOr(c, BitOr(d, e)))) :
        a \in {0, PyLineStateMaskEmptyLine}, b \in {0, PyLineStateMaskCommentLine},
        c \in {0, PyLineStateMaskTripleQuote}, d \in {0, PyLineStateMaskCloseBrace},
        e \in {0, PyLineStateStringInterpolation}}

\* the ends and the middle of the depths an 8-bit field holds
CodecDepths == {0, 1, 2, 127, 128, 254, 255}

\* indent widths up to MaxCodecIndent, and the widest one whose shift by 16
\* stays a non-negative int
MaxCodecIndent == 2

CodecIndents == 0..MaxCodecIndent \cup {2 ^ 15 - 1}

CodecTriples == CodecFlags \X CodecDepths \X CodecIndents

InitCodec ==
    /\ doc = <<>>
    /\ lexer = "codec"
    /\ pc = "encode"
    /\ pass = "full"
    /\ split = 0
    /\ m = ScalaStart(0, 0, "DEFAULT", <<>>, NoLineStates)
    /\ fullStyles = <<>>
    /\ fold = NoFold
    /\ hist = NoHist
    /\ \E x \in CodecTriples :
          codec = [flags |-> x[1], commentLevel |-> x[2], indentCount |-> x[3]]

\* lineState |= (commentLevel << 8) | (indentCount << 16)
CodecEncode ==
    /\ lexer = "codec"
    /\ pc = "encode"
    /\ pc' = "decode"
    /\ codec' = codec @@ [value |-> EncodeLineState(codec.flags, codec.commentLevel,
                                                    codec.indentCount)]
    /\ UNCHANGED <<doc, lexer, pass, split, m, fullStyles, fold, hist>>

CodecDecode ==
    /\ lexer = "codec"
    /\ pc = "decode"
    /\ pc' = "decoded"
    /\ codec' = codec @@ [out |-> <<DecodeFlags(codec.value),
                                    DecodeCommentLevel(codec.value),
                                    DecodeIndentCount(codec.value)>>]
    /\ UNCHANGED <<doc, lexer, pass, split, m, fullStyles, fold, hist>>

NextCodec == CodecEncode \/ CodecDecode

SpecCodec == InitCodec /\ [][NextCodec]_vars

\* C9: the integer built from a flag set, a comment depth in 0..255 and an
\* indent width in range decodes to the same three fields, and no other
\* triple of the checked ranges encodes to the same integer.
LineStateRoundTrip ==
    /\ (lexer = "codec" /\ pc = "decoded") =>
          codec.out = <<codec.flags, codec.commentLevel, codec.indentCount>>
    /\ (lexer = "codec" /\ pc = "decode") =>
          \A y \in CodecTriples :
              EncodeLineState(y[1], y[2], y[3]) = codec.value
                  => y = <<codec.flags, codec.commentLevel, codec.indentCount>>

\* every field at work: all five flags, depth 255 and the widest indent
LineStateDecodedFull ==
    /\ lexer = "codec"
    /\ pc = "decoded"
    /\ codec.flags = 31
    /\ codec.commentLevel = 255
    /\ codec.indentCount = 2 ^ 15 - 1
    /\ codec.out = <<31, 255, 2 ^ 15 - 1>>

(***************************************************************************)
(* The progress of both scan loops.                                        *)
(***************************************************************************)
MaxLexTokens == 4

LexTokens == {<<DQ>>, <<BSL>>, <<"a">>, <<"$">>, <<"{">>, <<"0">>, <<":">>}

LexDocs == DocsOf(LexTokens, MaxLexTokens)

InitLex == InitScalaOn(LexDocs, FALSE) \/ InitZigOn(LexDocs)

NextLex == ScalaStep \/ ScalaComplete \/ ZigStep \/ ZigComplete

SpecLex == InitLex /\ [][NextLex]_vars

ZigStringStates == {"CHARACTER", "STRING", "MULTISTRING"}

MaxNestedTokens == 4

\* an interpolation opened in a string, a closing brace, a line end, an
\* opening tag in tag position and a closing tag
NestedTokens ==
    {<<"a", DQ, "$", "{">>, <<"}">>, <<NL>>, <<"(", "<", "a", ">">>, <<"<", "/", "a", ">">>}

InitNested == InitScalaOn(DocsOf(NestedTokens, MaxNestedTokens), TRUE)

SpecNested == InitNested /\ [][NextScala]_vars

HasInterpolationFlag(lineState) == BitAnd(lineState, PyLineStateStringInterpolation) # 0

\* C11: an iteration that takes the scan over a line end writes the LineState
\* of that line, and the next line begins with the context stack and the tag
\* depth that line end had; when the stack is non-empty or the tag depth is
\* not 0 the LineState written carries the string-interpolation flag, so a
\* line whose predecessor's LineState lacks the flag begins with the stack
\* empty and the tag depth 0.  A resumed scan enters its loop with the stack
\* empty and the tag depth 0, at the document start or at a line whose
\* predecessor's LineState lacks the flag.
NestedRegionFlag ==
    /\ [][(IsScanStep /\ m'.currentLine > m.currentLine) =>
            /\ m.atLineEnd
            /\ m'.currentLine = m.currentLine + 1
            /\ m.currentLine \in DOMAIN m'.lineStates
            /\ m'.nestedState = ScalaSwitch(m).nestedState
            /\ m'.xmlTagLevel = ScalaSwitch(m).xmlTagLevel
            /\ (m'.nestedState # <<>> \/ m'.xmlTagLevel # 0)
                  => HasInterpolationFlag(m'.lineStates[m.currentLine])]_vars
    /\ []((lexer = "scala" /\ pc = "scan" /\ hist.iters = 0) =>
            /\ m.nestedState = <<>>
            /\ m.xmlTagLevel = 0
            /\ \/ m.pos = 0
               \/ /\ m.atLineStart
                  /\ ~HasInterpolationFlag(GetLineState(m, m.currentLine - 1)))

\* a full pass has ended a line inside an interpolation and a later line
\* outside of it, and a resumed pass has started after the first line
NestedFlagWritten ==
    /\ lexer = "scala"
    /\ pass = "second"
    /\ pc = "done"
    /\ \E k \in DOMAIN m.lineStates :
          /\ HasInterpolationFlag(m.lineStates[k])
          /\ k + 1 \in DOMAIN m.lineStates
          /\ ~HasInterpolationFlag(m.lineStates[k + 1])

(***************************************************************************)
(* The comment depth field of the Scala LineState.                         *)
(***************************************************************************)
\* n open markers in a row
Openers(n) == [i \in 1..(2 * n) |-> IF i % 2 = 1 THEN "/" ELSE "*"]

\* comment depths that fit the field and the first two that do not
DeepLevels == {1, 2, 256, 257}

\* n open markers on the first line, one close marker and a letter on the next
DeepCommentDocs == {Openers(n) \o <<NL, "*", "/", "a">> : n \in DeepLevels}

InitDeep == InitScalaOn(DeepCommentDocs, TRUE)

SpecDeep == InitDeep /\ [][NextScala]_vars

\* C12: the depth field of every LineState written holds the comment depth
\* the line ended at and leaves the flag bits and the indent bits as the
\* line's flags and indent width make them, and a pass resumed at a line
\* boundary styles the text as the unsplit pass does.
CommentDepthFitsField ==
    /\ [][(IsScanStep /\ m'.currentLine > m.currentLine) =>
            LET c == ScalaCountVisible(ScalaSwitch(m))
                ls == m'.lineStates[m.currentLine]
            IN  /\ DecodeCommentLevel(ls) = c.commentLevel
                /\ DecodeFlags(ls) = ScalaLineFlags(c)
                /\ DecodeIndentCount(ls) = c.indentCount]_vars
    /\ []((lexer = "scala" /\ pc = "done" /\ pass = "second") => m.styles = fullStyles)

(***************************************************************************)
(* The close-brace flag of the Scala LineState.                            *)
(***************************************************************************)
MaxDedentTokens == 4

\* a closing brace, the opening of a triple-quoted string, the opening of
\* an interpolation, a blank, a letter and a line end
DedentTokens ==
    {<<"}">>, <<DQ, DQ, DQ>>, <<"a", DQ, "$", "{">>, <<" ">>, <<"a">>, <<NL>>}

InitDedent == InitScalaOn(DocsOf(DedentTokens, MaxDedentTokens), FALSE)

SpecDedent == InitDedent /\ [][NextScala]_vars

\* the first visible character of a line is an operator-styled closing
\* brace, bracket or parenthesis (operator-styled: met with the stack empty)
StartsWithCloser(line) ==
    LET on == {p \in LineStart(line)..(LineStart(line + 1) - 1) :
                  p < DocLen /\ ~isspacechar(CharAt(p))}
    IN  /\ on # {}
        /\ LET p == CHOOSE q \in on : \A r \in on : q <= r
           IN  CharAt(p) \in {"}", "]", ")"} /\ StyleAt(m, p) = "OPERATOR"

\* C13: after a pass, every line whose first visible character is a closing
\* brace, bracket or parenthesis styled as operator has the close-brace flag
\* in its LineState, whatever follows on the line.
DedentHintKept ==
    (lexer = "scala" /\ pc = "done") =>
        \A line \in DOMAIN m.lineStates :
            StartsWithCloser(line) =>
                BitAnd(m.lineStates[line], PyLineStateMaskCloseBrace) # 0

(***************************************************************************)
(* The length of an escape sequence in both lexers.                        *)
(***************************************************************************)
MaxEscapeDigits == 8

\* a string that opens with an escape: the introducers u, x, n and u{
EscapeOpeners == {<<DQ, BSL, "u">>, <<DQ, BSL, "x">>, <<DQ, BSL, "n">>, <<DQ, BSL, "u", "{">>}

HexRun(k) == [i \in 1..k |-> IF i % 2 = 1 THEN "1" ELSE "a"]

\* what follows the hex digits: nothing, a letter that is no hex digit, a
\* closing brace, each with or without one more hex digit
EscapeTails == {<<>>, <<"g">>, <<"}">>, <<"g", "1">>, <<"}", "1">>}

EscapeDocs ==
    {o \o HexRun(k) \o t : o \in EscapeOpeners, k \in 0..MaxEscapeDigits, t \in EscapeTails}

InitEscape == InitScalaOn(EscapeDocs, FALSE) \/ InitZigOn(EscapeDocs)

SpecEscape == InitEscape /\ [][NextLex]_vars

\* the hex digits that follow position p, and the characters styled as
\* escape from the backslash at position 1 on
RECURSIVE HexDigitsFrom(_)
HexDigitsFrom(p) == IF IsHexDigit(CharAt(p)) THEN 1 + HexDigitsFrom(p + 1) ELSE 0

RECURSIVE EscapeStyledFrom(_)
EscapeStyledFrom(p) ==
    IF p < DocLen /\ StyleAt(m, p) = "ESCAPECHAR" THEN 1 + EscapeStyledFrom(p + 1) ELSE 0

MinOf(a, b) == IF a < b THEN a ELSE b

\* the length of the escape at position 1 when u takes nu hex digits, x
\* (Zig only) nx and u{ (Zig only) nb digits and a closing brace
EscapeLengthWith(nu, nx, nb) ==
    LET intro == CharAt(2)
        braced == lexer = "zig" /\ intro = "u" /\ CharAt(3) = "{"
        k == HexDigitsFrom(IF braced THEN 4 ELSE 3)
    IN  IF braced
        THEN 3 + MinOf(k, nb) + (IF k <= nb /\ CharAt(4 + k) = "}" THEN 1 ELSE 0)
        ELSE IF intro = "u" THEN 2 + MinOf(k, nu)
        ELSE IF intro = "x" /\ lexer = "zig" THEN 2 + MinOf(k, nx)
        ELSE 2

\* C14 as stated: u is followed by 5 hex digits, x by 3, u{ by up to 7
EscapeLengthAsStated ==
    pc = "done" => EscapeStyledFrom(1) = EscapeLengthWith(5, 3, 7)

\* C14: the escape is the backslash, the introducer and, after u, at most 4
\* hex digits, after x (Zig only) at most 2, after any other introducer
\* nothing; after u{ (Zig only) at most 6 hex digits and the closing brace
\* that follows them; the first character that is no hex digit ends the
\* digits early.
EscapeLength ==
    pc = "done" => EscapeStyledFrom(1) = EscapeLengthWith(4, 2, 6)

\* a braced escape with six digits and its brace, all styled as escape
BracedEscapeDone ==
    /\ lexer = "zig"
    /\ pc = "done"
    /\ CharAt(3) = "{"
    /\ HexDigitsFrom(4) = 6
    /\ CharAt(10) = "}"
    /\ EscapeStyledFrom(1) = 10

(***************************************************************************)
(* The state an escape sequence returns to.                                *)
(***************************************************************************)
MaxReturnTokens == 4

\* the opening of an interpolated string, two quotes, a single quote, a
\* backslash escape, the doubled markers $$ and {{, an interpolated
\* identifier and a placeholder
ReturnTokens ==
    {<<"a", DQ>>, <<DQ, DQ>>, <<SQ>>, <<BSL, "n">>, <<"$", "$">>, <<"$", "a">>,
     <<"{", "{">>, <<"{", "0", "}">>}

ReturnDocs == DocsOf(ReturnTokens, MaxReturnTokens)

InitReturn == InitScalaOn(ReturnDocs, FALSE) \/ InitZigOn(ReturnDocs)

SpecReturn == InitReturn /\ [][NextLex]_vars

\* the states an escape sequence can begin in
EscapeOuterStates == ScalaStringStates \cup {"CHARACTER", "STRING", "MULTISTRING"}

\* C15: an iteration that leaves the escape-sequence state enters the state
\* the scan was in when that escape sequence began, a string or character
\* literal state.
EscapeReturnState ==
    [][(IsScanStep /\ m.state = "ESCAPECHAR" /\ m'.state # "ESCAPECHAR") =>
          /\ m'.state = hist.escFrom
          /\ hist.escFrom \in EscapeOuterStates]_vars

\* an escape in a triple-quoted interpolated string has just been left
EscapeReturnedToTriple ==
    /\ lexer = "scala"
    /\ pc = "scan"
    /\ m.state = "TRIPLE_INTERPOLATED_STRING"
    /\ hist.escFrom = "TRIPLE_INTERPOLATED_STRING"
    /\ m.segStart = m.pos
    /\ StyleAt(m, m.pos - 1) = "ESCAPECHAR"

(***************************************************************************)
(* Function definitions and references in the Scala scan.                  *)
(***************************************************************************)
MaxFunctionTokens == 4

\* an identifier with and without its parenthesis, a blank, a closing
\* bracket, the keyword return and a line end
FunctionTokens ==
    {<<"a", "(">>, <<"a">>, <<" ">>, <<"]">>, <<"r", "e", "t", "u", "r", "n">>, <<NL>>}

InitFunction == InitScalaOn(DocsOf(FunctionTokens, MaxFunctionTokens), FALSE)

SpecFunction == InitFunction /\ [][NextScala]_vars

\* the end of the last word before position p on p's line, 0 when there is none
RECURSIVE LastWordEnd(_)
LastWordEnd(p) ==
    IF p = 0 \/ CharAt(p - 1) = NL THEN 0
    ELSE IF IsScalaIdentifierChar(CharAt(p - 1)) THEN p
    ELSE LastWordEnd(p - 1)

RECURSIVE WordStart(_)
WordStart(p) == IF p > 0 /\ IsScalaIdentifierChar(CharAt(p - 1)) THEN WordStart(p - 1) ELSE p

\* the last word before position p on p's line
LastWordBefore(p) ==
    LET e == LastWordEnd(p)
        s == WordStart(e)
    IN  [i \in 1..(e - s) |-> CharAt(s + i - 1)]

\* the iteration ends an identifier that is in no list, has no pending
\* class, trait, function or enum flag and is followed on its line by '('
EndsCalledIdentifier ==
    /\ IsScanStep
    /\ lexer = "scala"
    /\ m.state = "IDENTIFIER"
    /\ m.escOuter = "DEFAULT"
    /\ ~IsScalaIdentifierChar(m.ch)
    /\ GetCurrent(m) \notin (KeywordList \cup ClassList \cup TraitList)
    /\ m.kwType \notin PendingKeywordTypes
    /\ GetLineNextChar(m) = "("

\* C16: such an identifier is styled as a function definition when the last
\* visible character before it is an identifier character or ']' and the
\* last word before it on its line is not return or yield, and as a function
\* reference otherwise.
FunctionClassification ==
    [][EndsCalledIdentifier =>
          LET before == PrevVisibleChar(m.segStart)
              afterReturn == LastWordBefore(m.segStart) \in ReturnWords
          IN  StyleAt(m', m.segStart)
                = IF ~afterReturn /\ (IsIdentifierCharEx(before) \/ before = "]")
                  THEN "FUNCTION_DEFINITION" ELSE "FUNCTION"]_vars

\* a call after return, styled as a reference although the character
\* before it is an identifier character
FunctionsClassified ==
    /\ lexer = "scala"
    /\ pc = "done"
    /\ \E q \in 1..DocLen :
          /\ StyleAt(m, q) = "FUNCTION"
          /\ CharAt(q - 1) = " "
          /\ StyleAt(m, q - 2) = "WORD"
          /\ LastWordBefore(q) \in ReturnWords

(***************************************************************************)
(* Runs of line-comment lines and of multi-line-string lines in FoldZigDoc.*)
(***************************************************************************)
MaxRunTokens == 4

\* a line-comment line, a multi-line-string line, an opening brace and a
\* line of code
RunTokens == {<<"/", "/", NL>>, <<BSL, BSL, NL>>, <<"{">>, <<"a", NL>>}

InitRun == InitZigOn(DocsOf(RunTokens, MaxRunTokens))

SpecRun == InitRun /\ [][NextFold]_vars

LineCommentFlag(line) == FoldLineState(GetLineState(m, line)).lineComment

MultilineStringFlag(line) == FoldLineState(GetLineState(m, line)).multilineString

\* lines first..last are a maximal run of two or more lines that all carry
\* the line-comment flag, or all the multi-line-string flag
IsFlagRun(first, last) ==
    /\ first < last
    /\ \/ /\ \A k \in first..last : LineCommentFlag(k) = 1
          /\ LineCommentFlag(first - 1) = 0
          /\ LineCommentFlag(last + 1) = 0
       \/ /\ \A k \in first..last : MultilineStringFlag(k) = 1
          /\ MultilineStringFlag(first - 1) = 0
          /\ MultilineStringFlag(last + 1) = 0

IsFoldHeader(lev) == BitAnd(lev, SC_FOLDLEVELHEADERFLAG) # 0

\* C17: the first line of every such run is a fold header that ends one
\* level above its start, the lines between the first and the last leave
\* the level unchanged, the last line ends at the level the first started
\* at, and a line is a fold header iff its end level exceeds its start level.
FlagRunFoldsAsUnit ==
    (lexer = "zig" /\ pc = "folded") =>
        /\ \A line \in DOMAIN fold.levels :
              IsFoldHeader(fold.levels[line])
                <=> LevelEndOf(fold.levels[line]) > LevelStartOf(fold.levels[line])
        /\ \A first, last \in DOMAIN fold.levels :
              IsFlagRun(first, last) =>
                  /\ IsFoldHeader(fold.levels[first])
                  /\ LevelEndOf(fold.levels[first]) = LevelStartOf(fold.levels[first]) + 1
                  /\ \A k \in (first + 1)..(last - 1) :
                        LevelEndOf(fold.levels[k]) = LevelStartOf(fold.levels[k])
                  /\ LevelEndOf(fold.levels[last]) = LevelStartOf(fold.levels[first])


(***************************************************************************)
(* The LineState writes and reads of one scan.                             *)
(***************************************************************************)
MaxCommitTokens == 4

\* letters, blanks and line ends, an interpolation's opening and closing
\* brace, and the line-comment marker that sets a line flag in both lexers
CommitTokens == {<<"a">>, <<" ">>, <<NL>>, <<"s", DQ, "$", "{">>, <<"}">>, <<"/", "/">>}

InitCommit ==
    \/ InitScalaOn(DocsOf(CommitTokens, MaxCommitTokens), TRUE)
    \/ InitZigOn(DocsOf(CommitTokens, MaxCommitTokens))

SpecCommit == InitCommit /\ [][NextLex]_vars

\* the lines whose line end lies in the positions from to .. (upto - 1)
LinesEndingIn(from, upto) == {GetLine(p) : p \in {q \in from..(upto - 1) : CharAt(q) = NL}}

\* the line the pass was asked to start at
RequestedStartLine == IF pass = "second" THEN split ELSE 0

WrittenLines == {m.written[i] : i \in 1..Len(m.written)}

\* the writes of a scan so far: one per line end passed, in line order; the
\* document's last line, which has no line end, is written as well when an
\* iteration moves to the document's end before it reaches the write
WritesInLineOrder ==
    /\ \A i \in 1..Len(m.written) : m.written[i] = GetLine(m.startPos) + i - 1
    /\ LinesEndingIn(m.startPos, m.pos) \subseteq WrittenLines
    /\ WrittenLines \subseteq
          LinesEndingIn(m.startPos, m.pos) \cup
          (IF m.pos = DocLen /\ m.startPos < DocLen THEN {NumLines - 1} ELSE {})
    /\ \A k \in WrittenLines : GetLine(m.startPos) <= k /\ k <= GetLine(m.endPos - 1)

\* an iteration that writes a LineState leaves the per-line fields reset
ResetAfterWrite ==
    (IsScanStep /\ Len(m'.written) > Len(m.written)) =>
        /\ Len(m'.written) = Len(m.written) + 1
        /\ m'.lineState = 0
        /\ m'.visibleChars = 0
        /\ m'.kwType = "None"
        /\ lexer = "scala" => (m'.indentCount = 0 /\ m'.visibleCharsBefore = 0)

MaxPeekTokens == 4

\* a string's opening with a placeholder's brace, an argument digit, the
\* parts of a directive, the closing brace, a line end
PeekTokens == {<<DQ, "{">>, <<"0">>, <<":">>, <<"d">>, <<".">>, <<"}">>, <<NL>>}

\* a scan of the chunk from the document's start to any later position
InitPeek ==
    /\ doc \in DocsOf(PeekTokens, MaxPeekTokens)
    /\ lexer = "zig"
    /\ pc = "scan"
    /\ pass = "first"
    /\ split = 0
    /\ \E length \in 1..DocLen :
          m = ZigStart(0, length, "DEFAULT", BlankStyles(doc), NoLineStates)
    /\ fullStyles = <<>>
    /\ fold = NoFold
    /\ hist = NoHist
    /\ codec = NoCodec

SpecPeek == InitPeek /\ [][NextZig]_vars

\* C19: while the chunk from m.startPos to m.endPos is scanned,
\* CheckBraceFormatSpecifier passes no position at or beyond m.endPos to
\* styler[], and reports a directive only when its closing brace lies in the
\* chunk.
PeeksStayInChunk ==
    (lexer = "zig" /\ pc \in {"scan", "done"}) =>
        /\ \A p \in m.peeked : p < m.endPos
        /\ \A p \in m.matched : p < m.endPos


(***************************************************************************)
(* The sign of the markup tag depth.                                       *)
(***************************************************************************)
\* C20: in a Scala scan from the document's start the markup tag depth is
\* never negative.
TagDepthNeverNegative ==
    (lexer = "scala" /\ pc \in {"scan", "done"}) => m.xmlTagLevel >= 0


(***************************************************************************)
(* The block-comment nesting counter and the automaton state.              *)
(***************************************************************************)
MaxLevelTokens == 4

\* open and close markers, the star that makes a documentation comment, a
\* comment tag, a letter, a quote, the line-comment marker and a line end
LevelTokens ==
    {<<"/", "*">>, <<"*", "/">>, <<"*">>, <<"@", "a">>, <<"a">>, <<DQ>>, <<"/", "/">>, <<NL>>}

InitLevel == InitScalaOn(DocsOf(LevelTokens, MaxLevelTokens), FALSE)

SpecLevel == InitLevel /\ [][NextScala]_vars

\* the states of the text inside a block comment
InBlockCommentStates == {"COMMENTBLOCK", "COMMENTBLOCKDOC", "COMMENTTAG"}

\* C21: in a Scala scan started at the document's start, before every
\* iteration of the loop and after the last one, the block-comment nesting
\* counter is at least 1 when the automaton is in a block-comment state
\* (block comment, documentation comment, comment tag) and 0 in every other
\* state; it is never negative.
CommentLevelMatchesState ==
    (lexer = "scala" /\ pc \in {"scan", "done"}) =>
        /\ m.commentLevel >= 0
        /\ m.state \in InBlockCommentStates => m.commentLevel >= 1
        /\ m.state \notin InBlockCommentStates => m.commentLevel = 0

\* the scan is two levels deep in a documentation comment
NestedInDocComment ==
    /\ lexer = "scala"
    /\ pc = "scan"
    /\ m.state = "COMMENTBLOCKDOC"
    /\ m.commentLevel = 2


(***************************************************************************)
(* The fold levels and the base level.                                     *)
(***************************************************************************)
MaxBaseTokens == 4

\* a multi-line-string line, a line-comment line, braces and a plain line
BaseTokens == {<<BSL, BSL, NL>>, <<"/", "/", NL>>, <<"}">>, <<"{">>, <<"a", NL>>}

InitBase == InitZigOn(DocsOf(BaseTokens, MaxBaseTokens))

SpecBase == InitBase /\ [][NextFold]_vars

\* C22: every start level and every end level that FoldZigDoc stores for a
\* line is at least SC_FOLDLEVELBASE, when folding starts at the first line.
FoldLevelsAtLeastBase ==
    (lexer = "zig" /\ pc \in {"fold", "folded"}) =>
        \A line \in DOMAIN fold.levels :
            /\ LevelStartOf(fold.levels[line]) >= SC_FOLDLEVELBASE
            /\ LevelEndOf(fold.levels[line]) >= SC_FOLDLEVELBASE


(***************************************************************************)
(* The blank-line flag of the Scala LineState.                             *)
(***************************************************************************)
\* the line holds a character that is not white space
HasVisibleChar(line) ==
    \E p \in LineStart(line)..(LineStart(line + 1) - 1) :
        p < DocLen /\ ~isspacechar(CharAt(p))

\* C23: after a pass a LineState carries the blank-line flag only if its
\* line holds no character that is not white space.
BlankFlagOnlyOnBlankLines ==
    (lexer = "scala" /\ pc = "done") =>
        \A line \in DOMAIN m.lineStates :
            BitAnd(m.lineStates[line], PyLineStateMaskEmptyLine) # 0
                => ~HasVisibleChar(line)


(***************************************************************************)
(* The Zig scan line by line: a pass over the document, then a pass over   *)
(* one of its lines taken as a document of its own.                        *)
(***************************************************************************)
MaxLocalTokens == 4

\* the quotes of strings and characters, the escape character (twice: the
\* multi-line string marker), the introducer of the braced escape, a
\* placeholder's opening and its closing brace, the line-comment marker, the
\* keyword that sets the pending keyword flag, a called identifier and a
\* line end
LocalTokens ==
    {<<DQ>>, <<SQ>>, <<BSL>>, <<"u", "{">>, <<"{", "0">>, <<"}">>, <<"/", "/">>,
     <<"f", "n", " ">>, <<"a", "(">>, <<NL>>}

\* split is the line that is scanned alone after the pass over the document
InitLocal ==
    /\ doc \in DocsOf(LocalTokens, MaxLocalTokens)
    /\ lexer = "zig"
    /\ pc = "scan"
    /\ pass = "full"
    /\ split \in {k \in 0..(NumLines - 1) : LineStart(k) < DocLen}
    /\ m = ZigStart(0, DocLen, "DEFAULT", BlankStyles(doc), NoLineStates)
    /\ fullStyles = <<>>
    /\ fold = NoFold
    /\ hist = NoHist
    /\ codec = NoCodec

\* the text of line split, its line end included, becomes the document;
\* fullStyles keeps the styles the pass gave to the text before the line and
\* those it gave to the line
ZigIsolateLine ==
    /\ lexer = "zig"
    /\ pc = "done"
    /\ pass = "full"
    /\ doc' = SubSeq(doc, LineStart(split) + 1, LineStart(split + 1))
    /\ fullStyles' = <<SubSeq(m.styles, 1, LineStart(split)),
                       SubSeq(m.styles, LineStart(split) + 1, LineStart(split + 1))>>
    /\ pc' = "isolated"
    /\ UNCHANGED <<lexer, pass, split, m, fold, hist, codec>>

\* ColouriseZigDoc enters its loop on the line alone
ZigRescanLine ==
    /\ lexer = "zig"
    /\ pc = "isolated"
    /\ m' = ZigStart(0, DocLen, "DEFAULT", BlankStyles(doc), NoLineStates)
    /\ pc' = "scan"
    /\ pass' = "line"
    /\ UNCHANGED <<doc, lexer, split, fullStyles, fold, hist, codec>>

NextLocal == ZigStep \/ ZigComplete \/ ZigIsolateLine \/ ZigRescanLine

SpecLocal == InitLocal /\ [][NextLocal]_vars

====
